---- MODULE Spec2Model ----
(***************************************************************************)
(* Booking lifecycle engine of the memento_mori bot: the private booking   *)
(* dialog, the group inline-button flow, the confirm / cancel handlers,    *)
(* the booking store (bookings and booking_events tables with the partial  *)
(* unique index idx_one_booking_per_day) and the three scheduler passes.   *)
(*                                                                         *)
(* Every awaited operation (one store statement, one outbound message) is  *)
(* one atomic step; the local computation that precedes it in the same     *)
(* coroutine is folded into that step.  The dispatcher runs one update     *)
(* handler at a time; between two steps of a handler or of a scheduler job *)
(* any scheduler job may run, and between two steps of a job a handler.    *)
(*                                                                         *)
(* Text is modelled as a tuple of character codes, so that the string      *)
(* comparisons of the code (Python <=, SQLite TEXT <=) are lexicographic   *)
(* comparisons and not comparisons of the times the text denotes.          *)
(***************************************************************************)
EXTENDS Integers, Sequences, FiniteSets, TLC

\* ------------------------------------------------------------------ bounds
\* Rows the bookings table may hold.
MaxBookings == 2
\* Store writes / outbound messages that may fail in one behaviour.
MaxFaults == 1
\* /book commands a requester sends.
MaxDialogs == 1

\* Buttons of a start menu the users press.
MaxPressed == 2

\* --------------------------------------------------------- program constants
BOOKING_MAX_HOURS == 2
BOOKING_CONFIRM_BEFORE_MINUTES == 5
BOOKING_CONFIRM_GRACE_MINUTES == 5
ADMIN_TG_ID == 0

\* Update handlers in flight at a time: Application.builder().token(..).build()
\* keeps concurrent_updates at its default, the dispatcher awaits each update
\* handler before it takes the next update.
MaxHandlers == 1

\* Registered, verified users (rows of the users table); the table is not
\* changed by any operation modelled here.
Users == {1, 2}

\* Senders of a booking-menu request: the users above, a sender whose users
\* row has is_verified = 0, and a sender without a users row.
Senders == Users \cup {3, 4}

\* Table users, as far as the booking handlers read it.
users == [tg_id \in Users \cup {3} |-> [is_verified |-> tg_id \in Users]]

\* db_user = await get_user(tg_id); not (not db_user or not db_user.is_verified).
IsVerified(tg_id) == tg_id \in DOMAIN users /\ users[tg_id].is_verified

\* ------------------------------------------------------------------- text
\* Character codes: '0'..'9' are 48..57, ':' is 58.
Colon == 58
IsDigit(c) == c >= 48 /\ c <= 57

\* "09:00", "10:00", "9:00", "9:30"
t_0900 == <<48, 57, 58, 48, 48>>
t_1000 == <<49, 48, 58, 48, 48>>
t_900  == <<57, 58, 48, 48>>
t_930  == <<57, 58, 51, 48>>

\* The date button a requester presses in the private dialog, or other text.
DateChoices == {"today", "other"}

\* Texts a requester types in the private dialog (booking.py takes any text
\* holding a ':'), as start and as end of a booking.
StartTexts == {t_0900, t_900}
EndTexts == {t_1000, t_930}

\* Python str < str and SQLite TEXT < TEXT (BINARY collation): lexicographic
\* on code points.
RECURSIVE StrLess(_, _)
StrLess(a, b) ==
    IF b = <<>> THEN FALSE
    ELSE IF a = <<>> THEN TRUE
    ELSE IF Head(a) < Head(b) THEN TRUE
    ELSE IF Head(a) > Head(b) THEN FALSE
    ELSE StrLess(Tail(a), Tail(b))

StrLE(a, b) == a = b \/ StrLess(a, b)

HasColon(t) == \E i \in 1..Len(t) : t[i] = Colon

\* Index of the first ':' of t (0 when there is none).
FirstColon(t) ==
    IF HasColon(t)
    THEN CHOOSE i \in 1..Len(t) : t[i] = Colon /\ \A j \in 1..(i - 1) : t[j] # Colon
    ELSE 0

\* int() of a run of one or two digits.
ToInt(s) ==
    IF Len(s) = 1 THEN s[1] - 48 ELSE (s[1] - 48) * 10 + (s[2] - 48)

AllDigits(s) == \A i \in 1..Len(s) : IsDigit(s[i])

\* The time-of-day part of datetime.strptime(.., "%Y-%m-%d %H:%M"): minutes
\* since midnight, or -1 where strptime raises ValueError.  %H takes one or two
\* digits up to 23, %M one or two digits up to 59, nothing may remain.
ParseTime(t) ==
    LET p == FirstColon(t)
        hh == SubSeq(t, 1, p - 1)
        mm == SubSeq(t, p + 1, Len(t))
    IN  IF /\ p > 0
           /\ Len(hh) \in {1, 2} /\ AllDigits(hh) /\ ToInt(hh) <= 23
           /\ Len(mm) \in {1, 2} /\ AllDigits(mm) /\ ToInt(mm) <= 59
        THEN ToInt(hh) * 60 + ToInt(mm)
        ELSE -1

\* strftime("%H:%M") / f"{h:02d}:{mn:02d}" of a minute of the day.
FormatTime(m) ==
    LET h == m \div 60
        mn == m % 60
    IN  <<48 + (h \div 10), 48 + (h % 10), Colon, 48 + (mn \div 10), 48 + (mn % 10)>>

\* --------------------------------------------------------------- the clock
DAY == 86400

\* Instants (seconds since 00:00 of the first day) the wall clock passes
\* through: 08:30:00, 08:54:30, 09:05:00, 10:00:00.
ClockInstants == <<30600, 32070, 32700, 36000>>

NULL == -1


\* ---------------------------------------------------------------- the state
VARIABLES
    now,                \* the wall clock, now_msk(), in seconds
    bookings,           \* table bookings: a sequence of rows, the id is the index
    booking_events,     \* table booking_events: booking id -> its rows in insertion order
    sent,               \* outbound messages delivered, counted per kind and booking
    conversations,      \* ConversationHandler state and user_data of each user
    handlers,           \* update handlers in flight: their position and locals
    jobs,               \* the three scheduler jobs: their position and locals
    end_buttons,        \* the "book_end" inline buttons the bot has rendered
    faults,             \* store writes / sends that may still fail
    dialogs,            \* booking dialogs each user may still start
    returned            \* the last direct call of a function of booking_validator.py:
                        \* its arguments and what it returned

vars == <<now, bookings, booking_events, sent, conversations, handlers, jobs,
          end_buttons, faults, dialogs, returned>>

BookingIds == 1..MaxBookings
JobNames == {"check_reminders", "check_expired", "complete_bookings"}

ActiveStatuses == {"pending", "confirmed"}
TerminalStatuses == {"cancelled", "cancelled_by_user", "cancelled_by_admin", "completed"}

\* ------------------------------------------------------ timezone_utils.py
get_today_date(t) == t \div DAY
get_tomorrow_date(t) == t \div DAY + 1

\* parse_booking_dt: the instant of (date, time text), or -1 for ValueError.
parse_booking_dt(date, time) ==
    IF ParseTime(time) = -1 THEN -1 ELSE date * DAY + ParseTime(time) * 60

\* The division as it would be if it rounded down.
FloorDiv60(x) == x \div 60

\* int(x / 60) for an integer number of seconds x: truncation toward zero.
TruncDiv60(x) == IF x >= 0 THEN x \div 60 ELSE -((-x) \div 60)

minutes_until(target_dt, t) == TruncDiv60(target_dt - t)

\* calculate_duration_hours, in minutes (the code divides by 60 and stores the
\* float): both texts split at ':' into two integers.
calculate_duration_hours(start_time, end_time) ==
    LET ps == FirstColon(start_time)
        pe == FirstColon(end_time)
        start_minutes == ToInt(SubSeq(start_time, 1, ps - 1)) * 60
                           + ToInt(SubSeq(start_time, ps + 1, Len(start_time)))
        end_minutes == ToInt(SubSeq(end_time, 1, pe - 1)) * 60
                           + ToInt(SubSeq(end_time, pe + 1, Len(end_time)))
    IN  end_minutes - start_minutes

\* ------------------------------------------------------------ database.py
\* The test as it would be if a completed booking still held its slot.
IsNotCancelled(row) == row.status \in ActiveStatuses \cup {"completed"}

IsActive(row) == row.status \in ActiveStatuses

\* The index as it would be with start_time among its columns.
idx_one_booking_per_slot(rows) ==
    \A i, j \in 1..Len(rows) :
        (i # j /\ IsActive(rows[i]) /\ IsActive(rows[j]))
            => ~(/\ rows[i].tg_id = rows[j].tg_id
                 /\ rows[i].date = rows[j].date
                 /\ rows[i].start_time = rows[j].start_time)

\* idx_one_booking_per_day: UNIQUE (tg_id, date) WHERE status IN
\* ('pending', 'confirmed').  SQLite raises IntegrityError on an INSERT or
\* UPDATE after which the table would break it.
idx_one_booking_per_day(rows) ==
    \A i, j \in 1..Len(rows) :
        (i # j /\ IsActive(rows[i]) /\ IsActive(rows[j]))
            => ~(rows[i].tg_id = rows[j].tg_id /\ rows[i].date = rows[j].date)

\* The row as it would be if the store normalised the times it is given.
NewBookingPadded(id, tg_id, date, start_time, end_time, duration, t) ==
    [id |-> id, tg_id |-> tg_id, date |-> date,
     start_time |-> FormatTime(ParseTime(start_time)),
     end_time |-> FormatTime(ParseTime(end_time)), duration |-> duration,
     status |-> "pending", created_at |-> t,
     confirmed_at |-> NULL, cancelled_at |-> NULL, completed_at |-> NULL,
     cancelled_by |-> "", cancel_reason |-> "",
     remind_sent |-> 0, group_notified |-> 0]

\* The row INSERTed by create_booking.
NewBooking(id, tg_id, date, start_time, end_time, duration, t) ==
    [id |-> id, tg_id |-> tg_id, date |-> date,
     start_time |-> start_time, end_time |-> end_time, duration |-> duration,
     status |-> "pending", created_at |-> t,
     confirmed_at |-> NULL, cancelled_at |-> NULL, completed_at |-> NULL,
     cancelled_by |-> "", cancel_reason |-> "",
     remind_sent |-> 0, group_notified |-> 0]

\* A row of booking_events.
Event(event_type, actor_label, actor_tg_id, t) ==
    [event_type |-> event_type, actor_label |-> actor_label,
     actor_tg_id |-> actor_tg_id, event_at |-> t]

\* get_booking: SELECT * FROM bookings WHERE id = ?, fetchone(): the first
\* matching row, or None.
get_booking(rows, id) ==
    LET found == SelectSeq(rows, LAMBDA r : r.id = id)
    IN  IF found = <<>> THEN NULL ELSE found[1]

\* create_booking: the table after the INSERT.
create_booking(rows, tg_id, date, start_time, end_time, duration, t) ==
    Append(rows, NewBooking(Len(rows) + 1, tg_id, date, start_time, end_time, duration, t))

\* confirm_booking: UPDATE .. SET status = 'confirmed', confirmed_at = ? WHERE id = ?
confirm_booking(rows, id, t) ==
    [rows EXCEPT ![id].status = "confirmed", ![id].confirmed_at = t]

status_map(cancelled_by) ==
    CASE cancelled_by = "user" -> "cancelled_by_user"
      [] cancelled_by = "admin" -> "cancelled_by_admin"
      [] OTHER -> "cancelled"

cancel_reason_of(cancelled_by) ==
    CASE cancelled_by = "user" -> "by_user"
      [] cancelled_by = "admin" -> "by_admin"
      [] OTHER -> "not_confirmed_in_time"

\* cancel_booking: UPDATE .. SET status, cancelled_at, cancelled_by,
\* cancel_reason WHERE id = ? (no condition on the current status).
cancel_booking(rows, id, cancelled_by, t) ==
    [rows EXCEPT ![id].status = status_map(cancelled_by),
                 ![id].cancelled_at = t,
                 ![id].cancelled_by = cancelled_by,
                 ![id].cancel_reason = cancel_reason_of(cancelled_by)]

\* complete_booking: UPDATE .. SET status = 'completed', completed_at = ? WHERE id = ?
complete_booking(rows, id, t) ==
    [rows EXCEPT ![id].status = "completed", ![id].completed_at = t]

\* The UPDATE as it would be if the reminder also set the group flag.
mark_remind_sent_and_flag(rows, id) ==
    [rows EXCEPT ![id].remind_sent = 1, ![id].group_notified = 1]

mark_remind_sent(rows, id) == [rows EXCEPT ![id].remind_sent = 1]

mark_group_notified(rows, id) == [rows EXCEPT ![id].group_notified = 1]

\* add_booking_event: INSERT INTO booking_events.
add_booking_event(evs, id, event_type, actor_label, actor_tg_id, t) ==
    [evs EXCEPT ![id] = Append(@, Event(event_type, actor_label, actor_tg_id, t))]

\* The query as it would be if it looked at the first of the dates only.
get_user_active_bookings_first_date(rows, tg_id, dates) ==
    SelectSeq(rows, LAMBDA r : r.tg_id = tg_id /\ r.date = dates[1] /\ IsActive(r))

\* get_user_active_bookings: the requester's active rows of the given dates.
get_user_active_bookings(rows, tg_id, dates) ==
    LET on(d) == SelectSeq(rows, LAMBDA r : r.tg_id = tg_id /\ r.date = d /\ IsActive(r))
    IN  on(dates[1]) \o on(dates[2])

\* get_bookings_for_schedule([date]): the active rows of one date.
get_bookings_for_schedule(rows, date) ==
    SelectSeq(rows, LAMBDA r : r.date = date /\ IsActive(r))

get_bookings_needing_reminder(rows) ==
    SelectSeq(rows, LAMBDA r : r.status = "pending" /\ r.remind_sent = 0)

\* The query of the timeout pass as it would be without the remind_sent test.
get_bookings_needing_cancellation_any(rows) ==
    SelectSeq(rows, LAMBDA r : r.status = "pending")

get_bookings_needing_cancellation(rows) ==
    SelectSeq(rows, LAMBDA r : r.status = "pending" /\ r.remind_sent = 1)

get_bookings_to_complete(rows) ==
    SelectSeq(rows, LAMBDA r : r.status = "confirmed")

\* The conflict query as it would be if only confirmed rows counted.
check_booking_conflict_confirmed_only(rows, date, start_time, end_time, exclude_booking_id) ==
    \E i \in 1..Len(rows) :
        /\ rows[i].date = date
        /\ rows[i].status = "confirmed"
        /\ ~(StrLE(rows[i].end_time, start_time) \/ StrLE(end_time, rows[i].start_time))
        /\ (exclude_booking_id # 0 => rows[i].id # exclude_booking_id)

\* check_booking_conflict: COUNT(*) > 0 of the active rows of the date with
\* NOT (end_time <= :start OR start_time >= :end), compared as TEXT; a falsy
\* exclude_booking_id (None, 0) excludes nothing.
check_booking_conflict(rows, date, start_time, end_time, exclude_booking_id) ==
    \E i \in 1..Len(rows) :
        /\ rows[i].date = date
        /\ IsActive(rows[i])
        /\ ~(StrLE(rows[i].end_time, start_time) \/ StrLE(end_time, rows[i].start_time))
        /\ (exclude_booking_id # 0 => rows[i].id # exclude_booking_id)

\* ----------------------------------------------------- booking_validator.py
\* get_next_half_hour: ceil((minutes + 1) / 30) * 30 for the minute of the day.
get_next_half_hour(t) ==
    LET minutes == (t % DAY) \div 60
    IN  ((minutes + 1 + 29) \div 30) * 30

\* get_available_start_slots: the 30-minute boundaries from start_min on whose
\* text is not the start_time of a busy booking, ascending.
RECURSIVE StartSlotsFrom(_, _)
StartSlotsFrom(m, busy_starts) ==
    IF m >= 24 * 60 THEN <<>>
    ELSE (IF FormatTime(m) \in busy_starts THEN <<>> ELSE <<FormatTime(m)>>)
             \o StartSlotsFrom(m + 30, busy_starts)

get_available_start_slots(selected_date, busy_bookings, t) ==
    LET start_min == IF selected_date = get_today_date(t) THEN get_next_half_hour(t) ELSE 0
        busy_starts == {busy_bookings[i].start_time : i \in 1..Len(busy_bookings)}
    IN  StartSlotsFrom(start_min, busy_starts)

\* The menu's test as it would be if touching intervals counted as overlapping.
has_conflict_with_bookings_touching(start_time, end_time, rows) ==
    \E i \in 1..Len(rows) :
        ~(StrLess(end_time, rows[i].start_time) \/ StrLess(rows[i].end_time, start_time))

\* has_conflict_with_bookings: the overlap test on the texts.
has_conflict_with_bookings(start_time, end_time, rows) ==
    \E i \in 1..Len(rows) :
        ~(StrLE(end_time, rows[i].start_time) \/ StrLE(rows[i].end_time, start_time))

\* get_available_end_slots: candidates start + 30, 60, .. minutes up to
\* BOOKING_MAX_HOURS, formatted "%H:%M" (the time of day, also past midnight),
\* cut at the first one that conflicts.  Called with a start_time that parses.
RECURSIVE EndSlotsFrom(_, _, _, _)
EndSlotsFrom(start_time, start_min, delta, busy_bookings) ==
    IF delta > BOOKING_MAX_HOURS * 60 THEN <<>>
    ELSE LET candidate_time == FormatTime((start_min + delta) % 1440)
         IN  IF has_conflict_with_bookings(start_time, candidate_time, busy_bookings)
             THEN <<>>
             ELSE <<candidate_time>>
                    \o EndSlotsFrom(start_time, start_min, delta + 30, busy_bookings)

get_available_end_slots(start_time, busy_bookings) ==
    EndSlotsFrom(start_time, ParseTime(start_time), 30, busy_bookings)

\* validate_booking_slot: "ok", or the reason of the first failing check, or
\* "ValueError" where parse_booking_dt raises.
validate_booking_slot(rows, date, start_time, end_time, exclude_booking_id) ==
    IF StrLE(end_time, start_time) THEN "end_not_after_start"
    ELSE IF ParseTime(start_time) = -1 \/ ParseTime(end_time) = -1 THEN "ValueError"
    ELSE IF ParseTime(end_time) - ParseTime(start_time) > BOOKING_MAX_HOURS * 60
         THEN "max_duration"
    ELSE IF check_booking_conflict(rows, date, start_time, end_time, exclude_booking_id)
         THEN "slot_taken"
    ELSE "ok"

\* --------------------------------------------------------------- notifier.py
\* One more delivered message of a kind for a booking.
Delivered(kind, id) == [sent EXCEPT ![kind][id] = @ + 1]

\* ------------------------------------------------------------ initial state
NoConversation == [state |-> "END", booking_date |-> NULL, booking_start_time |-> <<>>]

\* No function of booking_validator.py has been called directly.
NoResult ==
    [fn |-> "", date |-> NULL, start_time |-> <<>>, end_time |-> <<>>,
     exclude_booking_id |-> 0, reason |-> "", slots |-> <<>>]

\* Locals of an update handler: the acting user, the role of a cancel, the
\* Booking objects it fetched (rows[1] is the one in hand), the slot of a
\* create, the flow it belongs to, and the clock value its next store call
\* has read.
IdleHandler ==
    [pc |-> "idle", user |-> NULL, role |-> "", rows |-> <<>>,
     date |-> NULL, start_time |-> <<>>, end_time |-> <<>>, flow |-> "", ts |-> NULL]

\* Locals of a scheduler job: the Booking objects its query returned that are
\* still to be handled (rows[1] is the one in hand).
IdleJob == [pc |-> "idle", rows |-> <<>>, ts |-> NULL]

\* The state after main() has built the application and started the
\* scheduler: empty tables, nothing in flight.  The environment is fixed here:
\* how many store writes or sends will fail, and how many booking dialogs
\* each user will start.
InitWith(fault_budget, quota) ==
    /\ now = ClockInstants[1]
    /\ bookings = <<>>
    /\ booking_events = [b \in BookingIds |-> <<>>]
    /\ sent = [kind \in {"reminder", "cancelled_user", "cancelled_group"} |->
                  [b \in BookingIds |-> 0]]
    /\ conversations = [u \in Users |-> NoConversation]
    /\ handlers = [h \in 1..MaxHandlers |-> IdleHandler]
    /\ jobs = [j \in JobNames |-> IdleJob]
    /\ end_buttons = {}
    /\ faults = fault_budget
    /\ dialogs = quota
    /\ returned = NoResult

EveryRequester == [u \in Users |-> MaxDialogs]
OneRequester == [u \in Users |-> IF u = 1 THEN MaxDialogs ELSE 0]

\* Every user books, store writes and sends may fail.
Init == InitWith(MaxFaults, EveryRequester)

\* One requester, every store write and send succeeds.
InitOne == InitWith(0, OneRequester)

\* One requester, store writes and sends may fail.
InitOneFaulty == InitWith(MaxFaults, OneRequester)

\* Two requesters, every store write and send succeeds.
InitTwo == InitWith(0, EveryRequester)

\* A store write or a send may raise while the fault budget lasts.
FaultChoices == IF faults > 0 THEN {FALSE, TRUE} ELSE {FALSE}

\* ------------------------------------------------------------ the wall clock
Quiescent ==
    /\ \A h \in 1..MaxHandlers : handlers[h].pc = "idle"
    /\ \A j \in JobNames : jobs[j].pc = "idle"

\* The clock instants are minutes apart and an awaited call takes
\* milliseconds: the clock reaches the next instant while no coroutine is
\* suspended in a call.
Tick ==
    /\ Quiescent
    /\ \E k \in 1..(Len(ClockInstants) - 1) :
          now = ClockInstants[k] /\ now' = ClockInstants[k + 1]
    /\ UNCHANGED <<bookings, booking_events, sent, conversations, handlers, jobs,
                   end_buttons, faults, dialogs>>
    /\ UNCHANGED returned

\* ------------------------------------------------------- handler dispatch
AllIdle == \A h \in 1..MaxHandlers : handlers[h].pc = "idle"

\* A new update handler starts when no handler is in flight.
CanStart(h) == h = 1 /\ AllIdle

\* Handlers whose create_booking is still to come.
PendingCreates == Cardinality({h \in 1..MaxHandlers : handlers[h].pc = "create"})

\* The create step may be entered while the table has room for its row.
RoomForBooking == Len(bookings) + PendingCreates < MaxBookings

\* --------------------------------------------------- booking.py: the dialog
\* start_booking_flow: the entry point of the private conversation.
start_booking_flow(u) ==
    /\ AllIdle
    /\ dialogs[u] > 0
    /\ conversations[u].state = "END"
    /\ LET existing == get_user_active_bookings(
                           bookings, u, <<get_today_date(now), get_tomorrow_date(now)>>)
       IN  conversations' =
               IF ~IsVerified(u) \/ existing # <<>> THEN conversations
               ELSE [conversations EXCEPT ![u].state = "STEP_DATE"]
    /\ dialogs' = [dialogs EXCEPT ![u] = @ - 1]
    /\ UNCHANGED <<now, bookings, booking_events, sent, handlers, jobs, end_buttons,
                   faults>>
    /\ UNCHANGED returned

\* receive_date: choice is the button pressed ("today", "tomorrow") or other text.
receive_date(u, choice) ==
    /\ AllIdle
    /\ conversations[u].state = "STEP_DATE"
    /\ LET selected_date == IF choice = "today" THEN get_today_date(now)
                            ELSE get_tomorrow_date(now)
           busy_bookings == get_bookings_for_schedule(bookings, selected_date)
           available_slots == get_available_start_slots(selected_date, busy_bookings, now)
       IN  conversations' =
               IF choice = "other" \/ available_slots = <<>>
               THEN [conversations EXCEPT ![u] = NoConversation]
               ELSE [conversations EXCEPT ![u].state = "STEP_START_TIME",
                                          ![u].booking_date = selected_date]
    /\ UNCHANGED <<now, bookings, booking_events, sent, handlers, jobs, end_buttons,
                   faults, dialogs>>
    /\ UNCHANGED returned

\* receive_start_time: text is the message text.  A text parse_booking_dt
\* cannot parse raises inside get_available_end_slots: the conversation keeps
\* its state, user_data already holds the text.
receive_start_time(u, text) ==
    /\ AllIdle
    /\ conversations[u].state = "STEP_START_TIME"
    /\ LET selected_date == conversations[u].booking_date
           busy_bookings == get_bookings_for_schedule(bookings, selected_date)
       IN  conversations' =
               IF ~HasColon(text)
               THEN [conversations EXCEPT ![u] = NoConversation]
               ELSE IF ParseTime(text) = -1
               THEN [conversations EXCEPT ![u].booking_start_time = text]
               ELSE IF get_available_end_slots(text, busy_bookings) = <<>>
               THEN [conversations EXCEPT ![u] = NoConversation]
               ELSE [conversations EXCEPT ![u].state = "STEP_END_TIME",
                                          ![u].booking_start_time = text]
    /\ UNCHANGED <<now, bookings, booking_events, sent, handlers, jobs, end_buttons,
                   faults, dialogs>>
    /\ UNCHANGED returned

\* The same part as it would be if only a malformed time stopped the create.
CreateUnlessMalformed(h, u, date, start_time, end_time, flow) ==
    LET result == validate_booking_slot(bookings, date, start_time, end_time, 0)
    IN  /\ handlers' =
              IF result # "ValueError"
              THEN [handlers EXCEPT ![h] =
                       [IdleHandler EXCEPT !.pc = "create", !.user = u, !.date = date,
                                           !.start_time = start_time,
                                           !.end_time = end_time,
                                           !.flow = flow, !.ts = now]]
              ELSE handlers
        /\ conversations' = conversations

\* The part of receive_end_time and of handle_end_time_selection from
\* validate_booking_slot to the call of create_booking (which reads the clock
\* for created_at): the handler goes on to its create step when the slot is
\* valid.
ValidateThenCreate(h, u, date, start_time, end_time, flow) ==
    LET result == validate_booking_slot(bookings, date, start_time, end_time, 0)
    IN  /\ handlers' =
              IF result = "ok"
              THEN [handlers EXCEPT ![h] =
                       [IdleHandler EXCEPT !.pc = "create", !.user = u, !.date = date,
                                           !.start_time = start_time,
                                           !.end_time = end_time,
                                           !.flow = flow, !.ts = now]]
              ELSE handlers
        /\ conversations' =
              IF flow = "private" /\ result \notin {"ok", "ValueError"}
              THEN [conversations EXCEPT ![u] = NoConversation]
              ELSE conversations

\* receive_end_time, up to the final validation.
receive_end_time(h, u, text) ==
    /\ CanStart(h)
    /\ RoomForBooking
    /\ conversations[u].state = "STEP_END_TIME"
    /\ IF ~HasColon(text)
       THEN /\ conversations' = [conversations EXCEPT ![u] = NoConversation]
            /\ UNCHANGED handlers
       ELSE ValidateThenCreate(h, u, conversations[u].booking_date,
                               conversations[u].booking_start_time, text, "private")
    /\ UNCHANGED <<now, bookings, booking_events, sent, jobs, end_buttons, faults, dialogs>>
    /\ UNCHANGED returned

\* The create_booking call of receive_end_time / handle_end_time_selection:
\* both INSERTs in one transaction, or neither when the store raises
\* (IntegrityError of idx_one_booking_per_day, or the store is unavailable).
\* The private dialog then clears user_data and ends the conversation; an
\* exception leaves the conversation where it was.
create_booking_step(h) ==
    /\ handlers[h].pc = "create"
    /\ \E fail \in FaultChoices :
         LET t == handlers[h]
             rows == create_booking(bookings, t.user, t.date, t.start_time, t.end_time,
                                    calculate_duration_hours(t.start_time, t.end_time),
                                    t.ts)
             committed == ~fail /\ idx_one_booking_per_day(rows)
         IN  /\ bookings' = IF committed THEN rows ELSE bookings
             /\ booking_events' =
                    IF committed
                    THEN add_booking_event(booking_events, Len(rows), "created", "user",
                                           t.user, t.ts)
                    ELSE booking_events
             /\ conversations' =
                    IF committed /\ t.flow = "private"
                    THEN [conversations EXCEPT ![t.user] = NoConversation]
                    ELSE conversations
             /\ faults' = IF fail THEN faults - 1 ELSE faults
    /\ handlers' = [handlers EXCEPT ![h] = IdleHandler]
    /\ UNCHANGED <<now, sent, jobs, end_buttons, dialogs>>
    /\ UNCHANGED returned

\* ------------------------------------------- group_booking.py: inline buttons
\* query.data.split(":") of "book_start:{date}:{slot}" and of
\* "book_end:{date}:{start_time}:{slot}": the time texts are split at their
\* ':' as well.  A button is <<kind, date, text, text>>.
SplitColon(t) ==
    IF ~HasColon(t) THEN <<t>>
    ELSE <<SubSeq(t, 1, FirstColon(t) - 1), SubSeq(t, FirstColon(t) + 1, Len(t))>>

CallbackParts(button) ==
    <<button[1], button[2]>> \o SplitColon(button[3])
        \o (IF button[1] = "book_end" THEN SplitColon(button[4]) ELSE <<>>)

\* The "book_start" buttons handle_date_selection renders for a date, in
\* menu order: the first 20 available start slots.
StartButtons(date) ==
    LET slots == get_available_start_slots(
                     date, get_bookings_for_schedule(bookings, date), now)
    IN  [k \in 1..(IF Len(slots) < 20 THEN Len(slots) ELSE 20) |->
            <<"book_start", date, slots[k], <<>> >>]

\* The "book_end" buttons handle_start_time_selection renders.
EndButtons(date, start_time) ==
    LET slots == get_available_end_slots(
                     start_time, get_bookings_for_schedule(bookings, date))
    IN  {<<"book_end", date, start_time, slots[k]>> : k \in 1..Len(slots)}

\* The buttons a user presses: one of the first MaxPressed of today's start
\* menu, or a "book_end" button rendered before.
PressedButtons ==
    LET menu == StartButtons(get_today_date(now))
    IN  {menu[k] : k \in 1..(IF Len(menu) < MaxPressed THEN Len(menu) ELSE MaxPressed)}
            \cup end_buttons

\* A callback query of the group flow: handle_date_selection then
\* handle_start_time_selection for a "book_start" button,
\* handle_end_time_selection (up to the final validation) for a "book_end"
\* button.  The handlers take date, start_time and end_time from parts[1],
\* parts[2], parts[3].
group_callback_query(h, u) ==
    /\ CanStart(h)
    /\ \E button \in PressedButtons :
         LET parts == CallbackParts(button)
             date == parts[2]
             start_time == parts[3]
         IN  IF button[1] = "book_start"
             THEN /\ end_buttons' =
                        IF ParseTime(start_time) = -1 THEN end_buttons
                        ELSE end_buttons \cup EndButtons(date, start_time)
                  /\ UNCHANGED <<handlers, conversations>>
             ELSE /\ RoomForBooking
                  /\ ValidateThenCreate(h, u, date, start_time, parts[4], "group")
                  /\ UNCHANGED end_buttons
    /\ UNCHANGED <<now, bookings, booking_events, sent, jobs, faults, dialogs>>
    /\ UNCHANGED returned

\* ------------------------------------- the steps of one cancellation
\* What a coroutine at position pc does to the store and the outbox when it
\* cancels the Booking object it holds: cancel_booking, add_booking_event,
\* send_booking_cancelled_to_user, notify_group_booking_cancelled (skipped
\* when the object says the group was notified), mark_group_notified.
\* fail: the store write raises / the send fails.
CancelNext(pc) ==
    CASE pc = "cancel" -> "cancel_event"
      [] pc = "cancel_event" -> "notify_user"
      [] pc = "notify_user" -> "notify_group"
      [] pc = "notify_group" -> "mark"
      [] pc = "mark" -> "done"

CancelPcs == {"cancel", "cancel_event", "notify_user", "notify_group", "mark"}

\* The calls as they would be if a failed send raised like a failed store write.
RaisesAlso(pc, fail) == fail

\* A failing store write raises; a failing send is caught inside notifier.py.
Raises(pc, fail) == fail /\ pc \in {"cancel", "cancel_event", "mark"}

\* The send of notify_group_booking_cancelled is skipped: no fault can hit it.
GroupSendSkipped(pc, booking) == pc = "notify_group" /\ booking.group_notified = 1

CancelEffects(pc, booking, ts, cancelled_by, event_type, actor_tg_id, fail) ==
    /\ bookings' =
          CASE pc = "cancel" /\ ~fail -> cancel_booking(bookings, booking.id, cancelled_by, ts)
            [] pc = "mark" /\ ~fail -> mark_group_notified(bookings, booking.id)
            [] OTHER -> bookings
    /\ booking_events' =
          IF pc = "cancel_event" /\ ~fail
          THEN add_booking_event(booking_events, booking.id, event_type, cancelled_by,
                                 actor_tg_id, ts)
          ELSE booking_events
    /\ sent' =
          CASE pc = "notify_user" /\ ~fail -> Delivered("cancelled_user", booking.id)
            [] pc = "notify_group" /\ ~fail /\ booking.group_notified = 0 ->
                   Delivered("cancelled_group", booking.id)
            [] OTHER -> sent
    /\ faults' = IF fail THEN faults - 1 ELSE faults

EventTypeOf(cancelled_by) ==
    CASE cancelled_by = "user" -> "cancelled_user"
      [] cancelled_by = "admin" -> "cancelled_admin"
      [] OTHER -> "cancelled_timeout"

\* ------------------------------------ booking_handler.py: the confirm button
\* The callback as it would be without the status check.
confirm_booking_callback_unchecked(h, id) ==
    /\ CanStart(h)
    /\ id \in 1..Len(bookings)
    /\ sent["reminder"][id] > 0
    /\ handlers' =
          [handlers EXCEPT ![h] =
              [IdleHandler EXCEPT !.pc = "confirm", !.user = bookings[id].tg_id,
                                  !.rows = <<bookings[id]>>, !.ts = now]]
    /\ UNCHANGED <<now, bookings, booking_events, sent, conversations, jobs, end_buttons,
                   faults, dialogs>>
    /\ UNCHANGED returned

\* confirm_booking_callback up to the status check on the Booking it fetched.
\* The button is part of the reminder message, sent to the requester.
confirm_booking_callback(h, id) ==
    /\ CanStart(h)
    /\ id \in 1..Len(bookings)
    /\ sent["reminder"][id] > 0
    /\ handlers' =
          IF bookings[id].status # "pending" THEN handlers
          ELSE [handlers EXCEPT ![h] =
                   [IdleHandler EXCEPT !.pc = "confirm", !.user = bookings[id].tg_id,
                                       !.rows = <<bookings[id]>>, !.ts = now]]
    /\ UNCHANGED <<now, bookings, booking_events, sent, conversations, jobs, end_buttons,
                   faults, dialogs>>
    /\ UNCHANGED returned

\* confirm_booking(booking_id, confirmed_at), then add_booking_event.
confirm_booking_step(h) ==
    /\ handlers[h].pc \in {"confirm", "confirm_event"}
    /\ \E fail \in FaultChoices :
         LET t == handlers[h]
             id == t.rows[1].id
             rows == confirm_booking(bookings, id, t.ts)
             raised == fail \/ (t.pc = "confirm" /\ ~idx_one_booking_per_day(rows))
         IN  /\ bookings' = IF t.pc = "confirm" /\ ~raised THEN rows ELSE bookings
             /\ booking_events' =
                    IF t.pc = "confirm_event" /\ ~raised
                    THEN add_booking_event(booking_events, id, "confirmed", "user",
                                           t.user, t.ts)
                    ELSE booking_events
             /\ handlers' =
                    IF raised \/ t.pc = "confirm_event"
                    THEN [handlers EXCEPT ![h] = IdleHandler]
                    ELSE [handlers EXCEPT ![h].pc = "confirm_event", ![h].ts = now]
             /\ faults' = IF fail THEN faults - 1 ELSE faults
    /\ UNCHANGED <<now, sent, conversations, jobs, end_buttons, dialogs>>
    /\ UNCHANGED returned

\* ------------------------------------------ admin_handlers.py / handlers.py
\* admincancel_command up to the status check on the Booking it fetched.
admincancel_command(h, id) ==
    /\ CanStart(h)
    /\ id \in 1..Len(bookings)
    /\ handlers' =
          IF bookings[id].status \notin {"pending", "confirmed"} THEN handlers
          ELSE [handlers EXCEPT ![h] =
                   [IdleHandler EXCEPT !.pc = "cancel", !.user = ADMIN_TG_ID,
                                       !.role = "admin", !.rows = <<bookings[id]>>,
                                       !.ts = now]]
    /\ UNCHANGED <<now, bookings, booking_events, sent, conversations, jobs, end_buttons,
                   faults, dialogs>>
    /\ UNCHANGED returned

\* cancelbooking_command up to the list of the user's active bookings.
cancelbooking_command(h, u) ==
    /\ CanStart(h)
    /\ LET active == get_user_active_bookings(
                         bookings, u, <<get_today_date(now), get_tomorrow_date(now)>>)
       IN  handlers' =
               IF active = <<>> THEN handlers
               ELSE [handlers EXCEPT ![h] =
                        [IdleHandler EXCEPT !.pc = "cancel", !.user = u, !.role = "user",
                                            !.rows = active, !.ts = now]]
    /\ UNCHANGED <<now, bookings, booking_events, sent, conversations, jobs, end_buttons,
                   faults, dialogs>>
    /\ UNCHANGED returned

\* One awaited call of the cancellation in admincancel_command or in the loop
\* of cancelbooking_command.
cancel_handler_step(h) ==
    /\ handlers[h].pc \in CancelPcs
    /\ \E fail \in FaultChoices :
         LET t == handlers[h]
         IN  /\ GroupSendSkipped(t.pc, t.rows[1]) => ~fail
             /\ CancelEffects(t.pc, t.rows[1], t.ts, t.role, EventTypeOf(t.role),
                              t.user, fail)
             /\ handlers' =
                    IF Raises(t.pc, fail) THEN [handlers EXCEPT ![h] = IdleHandler]
                    ELSE IF CancelNext(t.pc) # "done"
                    THEN [handlers EXCEPT ![h].pc = CancelNext(t.pc), ![h].ts = now]
                    ELSE IF Len(t.rows) > 1
                    THEN [handlers EXCEPT ![h].pc = "cancel", ![h].rows = Tail(t.rows),
                                          ![h].ts = now]
                    ELSE [handlers EXCEPT ![h] = IdleHandler]
    /\ UNCHANGED <<now, conversations, jobs, end_buttons, dialogs>>
    /\ UNCHANGED returned

\* ------------------------------------------------------ booking_scheduler.py
\* 0 <= minutes_left <= BOOKING_CONFIRM_BEFORE_MINUTES
NeedsReminder(booking) ==
    LET minutes_left == minutes_until(parse_booking_dt(booking.date, booking.start_time), now)
    IN  0 <= minutes_left /\ minutes_left <= BOOKING_CONFIRM_BEFORE_MINUTES

\* minutes_since_start >= BOOKING_CONFIRM_GRACE_MINUTES
IsExpired(booking) ==
    LET minutes_since_start ==
            -minutes_until(parse_booking_dt(booking.date, booking.start_time), now)
    IN  minutes_since_start >= BOOKING_CONFIRM_GRACE_MINUTES

\* The test of the completion loop as it would be if it looked at the start
\* of the booking.
IsStarted(booking) == now >= parse_booking_dt(booking.date, booking.start_time)

\* now_msk() >= end_dt
IsFinished(booking) == now >= parse_booking_dt(booking.date, booking.end_time)

\* The if of a pass's loop body, by the pass that runs it.
Acts(pass, booking) ==
    CASE pass = "check_reminders" -> NeedsReminder(booking)
      [] pass = "check_expired" -> IsExpired(booking)
      [] OTHER -> IsFinished(booking)

\* The rows of a query result from the first one the loop of the pass acts on.
From(rows, pass) ==
    IF \E i \in 1..Len(rows) : Acts(pass, rows[i])
    THEN SubSeq(rows,
                CHOOSE i \in 1..Len(rows) :
                    Acts(pass, rows[i]) /\ \A j \in 1..(i - 1) : ~Acts(pass, rows[j]),
                Len(rows))
    ELSE <<>>

\* The jobs as they would be if an exception left a pass and stopped the
\* scheduler.
Uncaught(j) == [k \in JobNames |-> [pc |-> "stopped", rows |-> <<>>, ts |-> NULL]]

\* except Exception of a pass: the error is logged and the pass returns; the
\* interval job stays scheduled.
Caught(j) == [jobs EXCEPT ![j] = IdleJob]

\* A job that goes on with the rest of its list, or ends.
Continue(j, pc, rest) ==
    jobs' = IF rest = <<>> THEN [jobs EXCEPT ![j] = IdleJob]
            ELSE [jobs EXCEPT ![j] = [pc |-> pc, rows |-> rest, ts |-> now]]

\* check_upcoming_bookings: the query, and the loop up to the first reminder.
check_upcoming_bookings(j) ==
    /\ j = "check_reminders"
    /\ jobs[j].pc = "idle"
    /\ Continue(j, "send", From(get_bookings_needing_reminder(bookings), "check_reminders"))
    /\ UNCHANGED <<now, bookings, booking_events, sent, conversations, handlers,
                   end_buttons, faults, dialogs>>
    /\ UNCHANGED returned

\* send_booking_reminder, mark_remind_sent, add_booking_event of the loop
\* body, each followed by the loop up to the next awaited call.  A failed send
\* returns False and the loop goes on; a failed store write ends the pass in
\* its except clause.
check_upcoming_bookings_step(j) ==
    /\ j = "check_reminders"
    /\ jobs[j].pc \in {"send", "mark", "event"}
    /\ \E fail \in FaultChoices :
         LET t == jobs[j]
             id == t.rows[1].id
             rest == From(Tail(t.rows), "check_reminders")
         IN  /\ sent' = IF t.pc = "send" /\ ~fail THEN Delivered("reminder", id) ELSE sent
             /\ bookings' =
                    IF t.pc = "mark" /\ ~fail THEN mark_remind_sent(bookings, id)
                    ELSE bookings
             /\ booking_events' =
                    IF t.pc = "event" /\ ~fail
                    THEN add_booking_event(booking_events, id, "remind_sent", "system",
                                           NULL, t.ts)
                    ELSE booking_events
             /\ CASE t.pc = "send" /\ fail -> Continue(j, "send", rest)
                  [] t.pc = "send" /\ ~fail -> jobs' = [jobs EXCEPT ![j].pc = "mark"]
                  [] t.pc = "mark" /\ ~fail ->
                         jobs' = [jobs EXCEPT ![j].pc = "event", ![j].ts = now]
                  [] t.pc = "event" /\ ~fail -> Continue(j, "send", rest)
                  [] OTHER -> jobs' = Caught(j)
             /\ faults' = IF fail THEN faults - 1 ELSE faults
    /\ UNCHANGED <<now, conversations, handlers, end_buttons, dialogs>>
    /\ UNCHANGED returned

\* check_expired_bookings: the query, and the loop up to the first cancel_booking.
check_expired_bookings(j) ==
    /\ j = "check_expired"
    /\ jobs[j].pc = "idle"
    /\ Continue(j, "cancel", From(get_bookings_needing_cancellation(bookings), "check_expired"))
    /\ UNCHANGED <<now, bookings, booking_events, sent, conversations, handlers,
                   end_buttons, faults, dialogs>>
    /\ UNCHANGED returned

\* One awaited call of the loop body of check_expired_bookings, followed by
\* the loop up to the next one.
check_expired_bookings_step(j) ==
    /\ j = "check_expired"
    /\ jobs[j].pc \in CancelPcs
    /\ \E fail \in FaultChoices :
         LET t == jobs[j]
         IN  /\ GroupSendSkipped(t.pc, t.rows[1]) => ~fail
             /\ CancelEffects(t.pc, t.rows[1], t.ts, "system", "cancelled_timeout",
                              NULL, fail)
             /\ IF Raises(t.pc, fail) THEN jobs' = Caught(j)
                ELSE IF CancelNext(t.pc) # "done"
                THEN jobs' = [jobs EXCEPT ![j].pc = CancelNext(t.pc), ![j].ts = now]
                ELSE Continue(j, "cancel", From(Tail(t.rows), "check_expired"))
    /\ UNCHANGED <<now, conversations, handlers, end_buttons, dialogs>>
    /\ UNCHANGED returned

\* complete_finished_bookings: the query, and the loop up to the first
\* complete_booking (completed_at is read before the call).
complete_finished_bookings(j) ==
    /\ j = "complete_bookings"
    /\ jobs[j].pc = "idle"
    /\ Continue(j, "complete", From(get_bookings_to_complete(bookings), "complete_bookings"))
    /\ UNCHANGED <<now, bookings, booking_events, sent, conversations, handlers,
                   end_buttons, faults, dialogs>>
    /\ UNCHANGED returned

\* complete_booking and add_booking_event of the loop body.
complete_finished_bookings_step(j) ==
    /\ j = "complete_bookings"
    /\ jobs[j].pc \in {"complete", "complete_event"}
    /\ \E fail \in FaultChoices :
         LET t == jobs[j]
             id == t.rows[1].id
         IN  /\ bookings' =
                    IF t.pc = "complete" /\ ~fail THEN complete_booking(bookings, id, t.ts)
                    ELSE bookings
             /\ booking_events' =
                    IF t.pc = "complete_event" /\ ~fail
                    THEN add_booking_event(booking_events, id, "completed", "system",
                                           NULL, t.ts)
                    ELSE booking_events
             /\ CASE fail -> jobs' = Caught(j)
                  [] ~fail /\ t.pc = "complete" ->
                         jobs' = [jobs EXCEPT ![j].pc = "complete_event", ![j].ts = now]
                  [] OTHER -> Continue(j, "complete", From(Tail(t.rows), "complete_bookings"))
             /\ faults' = IF fail THEN faults - 1 ELSE faults
    /\ UNCHANGED <<now, sent, conversations, handlers, end_buttons, dialogs>>
    /\ UNCHANGED returned

\* ------------------------------------------------------------ specification
Next ==
    \/ Tick
    \/ \E u \in Users : start_booking_flow(u)
    \/ \E u \in Users, choice \in DateChoices : receive_date(u, choice)
    \/ \E u \in Users, text \in StartTexts : receive_start_time(u, text)
    \/ \E h \in 1..MaxHandlers, u \in Users, text \in EndTexts : receive_end_time(h, u, text)
    \/ \E h \in 1..MaxHandlers, u \in Users : group_callback_query(h, u)
    \/ \E h \in 1..MaxHandlers : create_booking_step(h)
    \/ \E h \in 1..MaxHandlers, id \in BookingIds : confirm_booking_callback(h, id)
    \/ \E h \in 1..MaxHandlers : confirm_booking_step(h)
    \/ \E h \in 1..MaxHandlers, id \in BookingIds : admincancel_command(h, id)
    \/ \E h \in 1..MaxHandlers, u \in Users : cancelbooking_command(h, u)
    \/ \E h \in 1..MaxHandlers : cancel_handler_step(h)
    \/ \E j \in JobNames : check_upcoming_bookings(j)
    \/ \E j \in JobNames : check_upcoming_bookings_step(j)
    \/ \E j \in JobNames : check_expired_bookings(j)
    \/ \E j \in JobNames : check_expired_bookings_step(j)
    \/ \E j \in JobNames : complete_finished_bookings(j)
    \/ \E j \in JobNames : complete_finished_bookings_step(j)

\* The bot as main.py builds it.
Spec == Init /\ [][Next]_vars

\* The bot with one requester.
SpecOne == InitOne /\ [][Next]_vars

SpecOneFaulty == InitOneFaulty /\ [][Next]_vars

\* The booking dialogs alone: the behaviours of the bot in which the users
\* send nothing but dialog messages and button presses, before the first
\* instant at which a scheduler pass finds something to do.
NextDialog ==
    \/ \E u \in Users : start_booking_flow(u)
    \/ \E u \in Users, choice \in DateChoices : receive_date(u, choice)
    \/ \E u \in Users, text \in StartTexts : receive_start_time(u, text)
    \/ \E h \in 1..MaxHandlers, u \in Users, text \in EndTexts : receive_end_time(h, u, text)
    \/ \E h \in 1..MaxHandlers, u \in Users : group_callback_query(h, u)
    \/ \E h \in 1..MaxHandlers : create_booking_step(h)

SpecDialog == InitTwo /\ [][NextDialog]_vars

\* The scheduler fires each interval job every 60 seconds, an awaited call
\* returns, and the clock goes on.
Fairness ==
    /\ WF_vars(Tick)
    /\ \A j \in JobNames :
          /\ WF_vars(check_upcoming_bookings(j))
          /\ WF_vars(check_upcoming_bookings_step(j))
          /\ WF_vars(check_expired_bookings(j))
          /\ WF_vars(check_expired_bookings_step(j))
          /\ WF_vars(complete_finished_bookings(j))
          /\ WF_vars(complete_finished_bookings_step(j))
    /\ \A h \in 1..MaxHandlers :
          /\ WF_vars(create_booking_step(h))
          /\ WF_vars(confirm_booking_step(h))
          /\ WF_vars(cancel_handler_step(h))

FairSpecOne == InitOne /\ [][Next]_vars /\ Fairness

\* The same scheduling with store writes and sends that may fail: the budget
\* of faults is finite, so writes and sends succeed from some point on.
FairSpecOneFaulty == InitOneFaulty /\ [][Next]_vars /\ Fairness

\* ------------------------------------------- database.py under any caller
\* The functions of database.py that write the bookings table, called in any
\* order with any arguments: each call is one transaction, committed unless
\* idx_one_booking_per_day rejects it (IntegrityError).
Dates == {get_today_date(ClockInstants[1]), get_tomorrow_date(ClockInstants[1])}

\* The call as it would be if the event were committed before the row.
call_create_booking_event_first(tg_id, date, start_time, end_time) ==
    /\ Len(bookings) < MaxBookings
    /\ LET rows == create_booking(bookings, tg_id, date, start_time, end_time,
                                  calculate_duration_hours(start_time, end_time), now)
       IN  /\ bookings' = IF idx_one_booking_per_day(rows) THEN rows ELSE bookings
           /\ booking_events' =
                  add_booking_event(booking_events, Len(rows), "created", "user",
                                    tg_id, now)
    /\ UNCHANGED <<now, sent, conversations, handlers, jobs, end_buttons, faults, dialogs>>
    /\ UNCHANGED returned

call_create_booking(tg_id, date, start_time, end_time) ==
    /\ Len(bookings) < MaxBookings
    /\ LET rows == create_booking(bookings, tg_id, date, start_time, end_time,
                                  calculate_duration_hours(start_time, end_time), now)
       IN  IF idx_one_booking_per_day(rows)
           THEN /\ bookings' = rows
                /\ booking_events' =
                       add_booking_event(booking_events, Len(rows), "created", "user",
                                         tg_id, now)
           ELSE UNCHANGED <<bookings, booking_events>>
    /\ UNCHANGED <<now, sent, conversations, handlers, jobs, end_buttons, faults, dialogs>>
    /\ UNCHANGED returned

call_confirm_booking(id) ==
    /\ id \in 1..Len(bookings)
    /\ LET rows == confirm_booking(bookings, id, now)
       IN  bookings' = IF idx_one_booking_per_day(rows) THEN rows ELSE bookings
    /\ UNCHANGED <<now, booking_events, sent, conversations, handlers, jobs, end_buttons,
                   faults, dialogs>>
    /\ UNCHANGED returned

call_cancel_booking(id, cancelled_by) ==
    /\ id \in 1..Len(bookings)
    /\ LET rows == cancel_booking(bookings, id, cancelled_by, now)
       IN  bookings' = IF idx_one_booking_per_day(rows) THEN rows ELSE bookings
    /\ UNCHANGED <<now, booking_events, sent, conversations, handlers, jobs, end_buttons,
                   faults, dialogs>>
    /\ UNCHANGED returned

call_complete_booking(id) ==
    /\ id \in 1..Len(bookings)
    /\ LET rows == complete_booking(bookings, id, now)
       IN  bookings' = IF idx_one_booking_per_day(rows) THEN rows ELSE bookings
    /\ UNCHANGED <<now, booking_events, sent, conversations, handlers, jobs, end_buttons,
                   faults, dialogs>>
    /\ UNCHANGED returned

NextStore ==
    \/ \E tg_id \in Users, date \in Dates, start_time \in StartTexts, end_time \in EndTexts :
          call_create_booking(tg_id, date, start_time, end_time)
    \/ \E id \in BookingIds : call_confirm_booking(id)
    \/ \E id \in BookingIds, cancelled_by \in {"user", "admin", "system"} :
          call_cancel_booking(id, cancelled_by)
    \/ \E id \in BookingIds : call_complete_booking(id)

SpecStore == InitTwo /\ [][NextStore]_vars

\* ------------------------------------------- the dialog with typed times
\* receive_start_time and receive_end_time take update.message.text: the
\* requester may press a button of the reply keyboard or type any text.
t_0905 == <<48, 57, 58, 48, 53>>
t_1400 == <<49, 52, 58, 48, 48>>
t_1630 == <<49, 54, 58, 51, 48>>

TypedStartTexts == {t_0900, t_900, t_1000}
TypedEndTexts == {t_1000, t_930, t_0905}

NextTyped ==
    \/ \E u \in Users : start_booking_flow(u)
    \/ \E u \in Users, choice \in DateChoices : receive_date(u, choice)
    \/ \E u \in Users, text \in TypedStartTexts : receive_start_time(u, text)
    \/ \E h \in 1..MaxHandlers, u \in Users, text \in TypedEndTexts :
          receive_end_time(h, u, text)
    \/ \E h \in 1..MaxHandlers : create_booking_step(h)

SpecTyped == InitTwo /\ [][NextTyped]_vars

\* --------------------------------- booking_validator.py called directly
\* validate_booking_slot called on the store as the dialogs have left it.
ValidateStartTexts == TypedStartTexts \cup {t_1400}
ValidateEndTexts == TypedEndTexts \cup {t_1630}

call_validate_booking_slot(date, start_time, end_time, exclude_booking_id) ==
    /\ AllIdle
    /\ returned' =
          [NoResult EXCEPT !.fn = "validate_booking_slot", !.date = date,
                           !.start_time = start_time, !.end_time = end_time,
                           !.exclude_booking_id = exclude_booking_id,
                           !.reason = validate_booking_slot(bookings, date, start_time,
                                                            end_time, exclude_booking_id)]
    /\ UNCHANGED <<now, bookings, booking_events, sent, conversations, handlers, jobs,
                   end_buttons, faults, dialogs>>

NextValidator ==
    \/ returned = NoResult /\ NextTyped
    \/ \E date \in Dates, start_time \in ValidateStartTexts, end_time \in ValidateEndTexts,
          exclude_booking_id \in 0..1 :
          call_validate_booking_slot(date, start_time, end_time, exclude_booking_id)

SpecValidator == InitTwo /\ [][NextValidator]_vars

\* get_available_start_slots and get_available_end_slots called as
\* receive_date and receive_start_time call them: with the active bookings of
\* the date, at the current clock.
BoundaryStarts == {FormatTime(m) : m \in {540, 1350, 1380, 1410}}

call_get_available_start_slots(selected_date) ==
    /\ AllIdle
    /\ returned' =
          [NoResult EXCEPT !.fn = "get_available_start_slots", !.date = selected_date,
                           !.slots = get_available_start_slots(
                                         selected_date,
                                         get_bookings_for_schedule(bookings, selected_date),
                                         now)]
    /\ UNCHANGED <<now, bookings, booking_events, sent, conversations, handlers, jobs,
                   end_buttons, faults, dialogs>>

call_get_available_end_slots(date, start_time) ==
    /\ AllIdle
    /\ returned' =
          [NoResult EXCEPT !.fn = "get_available_end_slots", !.date = date,
                           !.start_time = start_time,
                           !.slots = get_available_end_slots(
                                         start_time,
                                         get_bookings_for_schedule(bookings, date))]
    /\ UNCHANGED <<now, bookings, booking_events, sent, conversations, handlers, jobs,
                   end_buttons, faults, dialogs>>

NextSlots ==
    \/ returned = NoResult /\ Tick
    \/ returned = NoResult /\ NextTyped
    \/ \E selected_date \in Dates : call_get_available_start_slots(selected_date)
    \/ \E date \in Dates, start_time \in BoundaryStarts :
          call_get_available_end_slots(date, start_time)

SpecSlots == InitOne /\ [][NextSlots]_vars

\* ------------------------------------------- the wall clock at a finer grain
\* now_msk() is read at the start of every store call (ts_for_db(now_msk())),
\* and an awaited call takes time: between two steps of the bot the clock has
\* moved on.  MaxElapse is the number of readings told apart after an instant
\* of ClockInstants.
MaxElapse == 6

\* The clock has moved since the last reading any coroutine in flight took.
TimePassed ==
    /\ \A h \in 1..MaxHandlers : handlers[h].ts < now
    /\ \A j \in JobNames : jobs[j].ts < now

\* The clock moves on while coroutines are suspended in their calls.
Elapse ==
    /\ \E k \in 1..Len(ClockInstants) :
          ClockInstants[k] <= now /\ now < ClockInstants[k] + MaxElapse
    /\ now' = now + 1
    /\ UNCHANGED <<bookings, booking_events, sent, conversations, handlers, jobs,
                   end_buttons, faults, dialogs>>
    /\ UNCHANGED returned

\* The clock reaches the next instant of ClockInstants while nothing is in
\* flight.
NextInstant ==
    /\ Quiescent
    /\ \E k \in 1..(Len(ClockInstants) - 1) :
          /\ ClockInstants[k] <= now /\ now < ClockInstants[k + 1]
          /\ now' = ClockInstants[k + 1]
    /\ UNCHANGED <<bookings, booking_events, sent, conversations, handlers, jobs,
                   end_buttons, faults, dialogs>>
    /\ UNCHANGED returned

\* The handlers that write to a booking and the scheduler passes, without
\* the dialog and without the clock.
NextFlows ==
    \/ \E h \in 1..MaxHandlers : create_booking_step(h)
    \/ \E h \in 1..MaxHandlers, id \in BookingIds : confirm_booking_callback(h, id)
    \/ \E h \in 1..MaxHandlers : confirm_booking_step(h)
    \/ \E h \in 1..MaxHandlers, id \in BookingIds : admincancel_command(h, id)
    \/ \E h \in 1..MaxHandlers, u \in Users : cancelbooking_command(h, u)
    \/ \E h \in 1..MaxHandlers : cancel_handler_step(h)
    \/ \E j \in JobNames : check_upcoming_bookings(j)
    \/ \E j \in JobNames : check_upcoming_bookings_step(j)
    \/ \E j \in JobNames : check_expired_bookings(j)
    \/ \E j \in JobNames : check_expired_bookings_step(j)
    \/ \E j \in JobNames : complete_finished_bookings(j)
    \/ \E j \in JobNames : complete_finished_bookings_step(j)

NextEvents ==
    \/ Elapse
    \/ NextInstant
    \/ TimePassed /\ NextFlows

\* The state in which receive_end_time, at instant t, has validated today
\* 09:00-10:00 for requester 1 and is about to call create_booking.
CreatingAt(t) ==
    /\ now = t
    /\ bookings = <<>>
    /\ booking_events = [b \in BookingIds |-> <<>>]
    /\ sent = [kind \in {"reminder", "cancelled_user", "cancelled_group"} |->
                  [b \in BookingIds |-> 0]]
    /\ conversations =
          [u \in Users |->
              IF u = 1
              THEN [state |-> "STEP_END_TIME",
                    booking_date |-> get_today_date(t),
                    booking_start_time |-> t_0900]
              ELSE NoConversation]
    /\ handlers =
          [h \in 1..MaxHandlers |->
              [IdleHandler EXCEPT !.pc = "create", !.user = 1,
                                  !.date = get_today_date(t),
                                  !.start_time = t_0900, !.end_time = t_1000,
                                  !.flow = "private", !.ts = t]]
    /\ jobs = [j \in JobNames |-> IdleJob]
    /\ end_buttons = {}
    /\ faults = 0
    /\ dialogs = [u \in Users |-> 0]
    /\ returned = NoResult

InitCreating == CreatingAt(ClockInstants[1])

\* One booking from its create_booking call on, every step at a later
\* reading of the clock than the one before.
SpecEvents == InitCreating /\ [][NextEvents]_vars

\* --------------------------------------------- passes with several rows
\* The dialogs of two requesters, the clock, the reminder pass and the
\* timeout pass, store writes and sends failing while the fault budget lasts.
NextBatch ==
    \/ Tick
    \/ NextDialog
    \/ \E j \in JobNames : check_upcoming_bookings(j)
    \/ \E j \in JobNames : check_upcoming_bookings_step(j)
    \/ \E j \in JobNames : check_expired_bookings(j)
    \/ \E j \in JobNames : check_expired_bookings_step(j)

SpecBatch == Init /\ [][NextBatch]_vars

\* ------------------------------------------------ a tick every 60 seconds
\* The number of ticks of the scheduler after the second instant of
\* ClockInstants.
MaxTicks == 66

\* Every pass of the current tick has run: none has a row left to act on.
PassesDone ==
    /\ From(get_bookings_needing_reminder(bookings), "check_reminders") = <<>>
    /\ From(get_bookings_needing_cancellation(bookings), "check_expired") = <<>>
    /\ From(get_bookings_to_complete(bookings), "complete_bookings") = <<>>

\* The interval jobs fire every 60 seconds (minutes=1): the next tick comes
\* when the passes of this one have run and nothing is in flight.
Minute ==
    /\ Quiescent
    /\ PassesDone
    /\ now < ClockInstants[2] + MaxTicks * 60
    /\ now' = now + 60
    /\ UNCHANGED <<bookings, booking_events, sent, conversations, handlers, jobs,
                   end_buttons, faults, dialogs>>
    /\ UNCHANGED returned

NextPolling ==
    \/ Minute
    \/ NextFlows

\* One booking from its create_booking call at 08:54:30 on, the scheduler
\* ticking every 60 seconds, every store write and send succeeding.
SpecPolling == CreatingAt(ClockInstants[2]) /\ [][NextPolling]_vars

\* ------------------------------------- the passes of one tick, run in a row
\* The tables and the messages sent.
Store(rows, evs, out) == [bookings |-> rows, booking_events |-> evs, sent |-> out]

\* The loop body of a pass on one row of its query result, with every call
\* succeeding, at one reading of the clock.
Body(pass, booking, store) ==
    LET id == booking.id
        out(kind) == [store.sent EXCEPT ![kind][id] = @ + 1]
    IN  CASE ~Acts(pass, booking) -> store
          [] Acts(pass, booking) /\ pass = "check_reminders" ->
                Store(mark_remind_sent(store.bookings, id),
                      add_booking_event(store.booking_events, id, "remind_sent", "system",
                                        NULL, now),
                      out("reminder"))
          [] Acts(pass, booking) /\ pass = "check_expired" ->
                Store(mark_group_notified(cancel_booking(store.bookings, id, "system", now), id),
                      add_booking_event(store.booking_events, id, "cancelled_timeout",
                                        "system", NULL, now),
                      [out("cancelled_user") EXCEPT
                          !["cancelled_group"][id] = @ + (1 - booking.group_notified)])
          [] OTHER ->
                Store(complete_booking(store.bookings, id, now),
                      add_booking_event(store.booking_events, id, "completed", "system",
                                        NULL, now),
                      store.sent)

RECURSIVE Loop(_, _, _)
\* for booking in bookings: the loop of a pass over its query result.
Loop(pass, rows, store) ==
    IF rows = <<>> THEN store
    ELSE Loop(pass, Tail(rows), Body(pass, rows[1], store))

\* One whole pass: its query on the store as it is, then its loop.
Pass(pass, store) ==
    Loop(pass,
         CASE pass = "check_reminders" -> get_bookings_needing_reminder(store.bookings)
           [] pass = "check_expired" -> get_bookings_needing_cancellation(store.bookings)
           [] OTHER -> get_bookings_to_complete(store.bookings),
         store)

\* The three passes of one tick run one after the other, in the order
\* <<j1, j2, j3>>, while no handler is in flight.
run_passes(j1, j2, j3) ==
    /\ Quiescent
    /\ {j1, j2, j3} = JobNames
    /\ LET after == Pass(j3, Pass(j2, Pass(j1, Store(bookings, booking_events, sent))))
       IN  /\ bookings' = after.bookings
           /\ booking_events' = after.booking_events
           /\ sent' = after.sent
    /\ UNCHANGED <<now, conversations, handlers, jobs, end_buttons, faults, dialogs>>
    /\ UNCHANGED returned

\* The dialogs and the confirm button of two requesters, the clock, and the
\* passes of a tick run in a row.
NextPasses ==
    \/ Tick
    \/ NextDialog
    \/ \E h \in 1..MaxHandlers, id \in BookingIds : confirm_booking_callback(h, id)
    \/ \E h \in 1..MaxHandlers : confirm_booking_step(h)
    \/ \E j1, j2, j3 \in JobNames : run_passes(j1, j2, j3)

SpecPasses == InitTwo /\ [][NextPasses]_vars

\* ------------------------------------------------------------------ claims
\* Rows of booking_events of booking b whose kind is one of types.
CountEvents(evs, b, types) ==
    Cardinality({k \in 1..Len(evs[b]) : evs[b][k].event_type \in types})

CancelOrCompleteEvents == {"cancelled_user", "cancelled_admin", "cancelled_timeout", "completed"}

\* The [start, end) intervals of two rows, as times of day, overlap.
Overlap(r1, r2) ==
    /\ ParseTime(r1.start_time) < ParseTime(r2.end_time)
    /\ ParseTime(r2.start_time) < ParseTime(r1.end_time)

\* C1: no two active bookings of the same date have overlapping [start, end)
\* intervals, whatever booking requests of different requesters were served.
C1_NoOverlappingActiveBookings ==
    \A i, j \in 1..Len(bookings) :
        (/\ i < j
         /\ IsActive(bookings[i]) /\ IsActive(bookings[j])
         /\ bookings[i].date = bookings[j].date)
            => ~Overlap(bookings[i], bookings[j])

\* C2: for every (requester, date) pair at most one booking is active, in
\* every state the store reaches under any order of calls.
C2_OneActiveBookingPerRequesterAndDate ==
    \A u \in Users, d \in Dates :
        Cardinality({i \in 1..Len(bookings) :
                        /\ bookings[i].tg_id = u /\ bookings[i].date = d
                        /\ bookings[i].status \in {"pending", "confirmed"}}) <= 1

\* C2, its case: a requester holds an active booking of a date beside an
\* earlier, cancelled or completed one of the same date, and one more insert
\* for the pair is one the store refuses.
C2_SecondInsertRefused ==
    \E i, j \in 1..Len(bookings) :
        /\ i < j
        /\ bookings[i].tg_id = bookings[j].tg_id /\ bookings[i].date = bookings[j].date
        /\ bookings[i].status \in TerminalStatuses
        /\ bookings[j].status \in {"pending", "confirmed"}
        /\ ~idx_one_booking_per_day(
               create_booking(bookings, bookings[j].tg_id, bookings[j].date,
                              t_0900, t_1000, 60, now))

\* C3: a status that is completed or cancelled is never changed again.
C3_TerminalStatusesAbsorbing ==
    [][\A b \in 1..Len(bookings) :
          bookings[b].status \in TerminalStatuses
              => bookings'[b].status = bookings[b].status]_vars

\* C4: at most one cancellation or completion event is ever written for a
\* booking.
C4_AtMostOneCancelOrCompleteEvent ==
    \A b \in 1..Len(bookings) : CountEvents(booking_events, b, CancelOrCompleteEvents) <= 1

\* C5: a confirmed booking is never moved to the timeout-cancelled status
\* (cancelled_by = system).
C5_ConfirmedNeverTimedOut ==
    [][\A b \in 1..Len(bookings) :
          bookings[b].status = "confirmed"
              => ~(bookings'[b].status = "cancelled" /\ bookings'[b].cancelled_by = "system")]_vars

\* C6: in every state each booking has exactly one created event and exactly
\* one event for a confirm, a cancel and a complete that has been applied to
\* it, and no such event without the transition.
C6_TransitionAndEventTogether ==
    \A b \in 1..Len(bookings) :
        /\ CountEvents(booking_events, b, {"created"}) = 1
        /\ CountEvents(booking_events, b, {"confirmed"})
               = (IF bookings[b].confirmed_at # NULL THEN 1 ELSE 0)
        /\ CountEvents(booking_events, b,
                       {"cancelled_user", "cancelled_admin", "cancelled_timeout"})
               = (IF bookings[b].cancelled_at # NULL THEN 1 ELSE 0)
        /\ CountEvents(booking_events, b, {"completed"})
               = (IF bookings[b].completed_at # NULL THEN 1 ELSE 0)

\* C7: when the timeout pass has processed a booking (it found it pending,
\* reminded and at least the grace period past its start), the booking is
\* cancelled by the system, has exactly one cancelled_timeout event, exactly
\* one cancellation message went to the requester and one to the group, and
\* group_notified is set.
C7_TimeoutPassOutcome ==
    [][(jobs["check_expired"].pc = "mark" /\ jobs'["check_expired"].pc # "mark")
         => LET b == jobs["check_expired"].rows[1].id
            IN  /\ bookings'[b].status = "cancelled"
                /\ bookings'[b].cancelled_by = "system"
                /\ CountEvents(booking_events', b, {"cancelled_timeout"}) = 1
                /\ sent'["cancelled_user"][b] = 1
                /\ sent'["cancelled_group"][b] = 1
                /\ bookings'[b].group_notified = 1]_vars

\* C8: a booking that is pending when its start is the grace period or more
\* past does not stay pending for ever, also when its start was already past
\* when it was committed.
C8_PendingPastGraceIsCancelled ==
    \A b \in BookingIds :
        (IF b <= Len(bookings)
         THEN /\ bookings[b].status = "pending"
              /\ IsExpired(bookings[b])
              /\ bookings[b].created_at
                     >= parse_booking_dt(bookings[b].date, bookings[b].start_time) + 60
         ELSE FALSE)
            ~> (IF b <= Len(bookings) THEN bookings[b].status # "pending" ELSE FALSE)

\* C9: at most one reminder message is sent to the requester of a booking.
C9_AtMostOneReminder ==
    \A b \in 1..Len(bookings) : sent["reminder"][b] <= 1

\* C10: at most one cancellation announcement of a booking is sent to the
\* group chat.
C10_AtMostOneGroupAnnouncement ==
    \A b \in 1..Len(bookings) : sent["cancelled_group"][b] <= 1

\* C11: the group_notified flag of a booking is set only after a cancellation
\* announcement of it was delivered to the group; when the group send fails
\* the flag stays unset.
C11_GroupFlagOnlyAfterAnnouncement ==
    \A b \in 1..Len(bookings) :
        bookings[b].group_notified = 1 => sent["cancelled_group"][b] >= 1

CancelledStatuses == {"cancelled", "cancelled_by_user", "cancelled_by_admin"}

\* C12: every booking that is cancelled is eventually announced to the group,
\* also when a notification failed or the processing stopped after the status
\* change was committed, provided sends and writes succeed from some point on.
C12_CancelledIsEventuallyAnnounced ==
    \A b \in BookingIds :
        (IF b <= Len(bookings) THEN bookings[b].status \in CancelledStatuses ELSE FALSE)
            ~> (IF b <= Len(bookings) THEN sent["cancelled_group"][b] >= 1 ELSE FALSE)

C14_CreateOnlyAfterValidation ==
    [][/\ \A h \in 1..MaxHandlers :
             (handlers'[h].pc = "create" /\ handlers[h].pc # "create")
                 => validate_booking_slot(bookings, handlers'[h].date,
                                          handlers'[h].start_time,
                                          handlers'[h].end_time, 0) = "ok"
       /\ Len(bookings') > Len(bookings)
             => \E h \in 1..MaxHandlers :
                   /\ handlers[h].pc = "create"
                   /\ Len(bookings') = Len(bookings) + 1
                   /\ bookings'[Len(bookings')].tg_id = handlers[h].user
                   /\ bookings'[Len(bookings')].date = handlers[h].date
                   /\ bookings'[Len(bookings')].start_time = handlers[h].start_time
                   /\ bookings'[Len(bookings')].end_time = handlers[h].end_time]_vars

\* C14, its case: a booking was persisted by a handler that has returned.
C14_BookingPersisted ==
    /\ Len(bookings) >= 1
    /\ CountEvents(booking_events, 1, {"created"}) = 1
    /\ AllIdle

\* C15: validate_booking_slot returns the reason of the first check that
\* fails, in the order end > start, duration <= BOOKING_MAX_HOURS, no
\* conflict: an end that is not after the start gives the first reason, a
\* longer duration the second whatever the store holds, and the answer
\* depends on the store only when both pass.
C15_FirstFailingCheckDecides ==
    returned.fn = "validate_booking_slot"
        => LET start_min == ParseTime(returned.start_time)
               end_min == ParseTime(returned.end_time)
           IN  IF end_min <= start_min
               THEN returned.reason = "end_not_after_start"
               ELSE IF end_min - start_min > BOOKING_MAX_HOURS * 60
               THEN returned.reason = "max_duration"
               ELSE returned.reason \in {"slot_taken", "ok"}

\* C16: for an interval with start < end and a duration within the maximum,
\* validate_booking_slot refuses it exactly when an active booking of the
\* same date, other than the excluded one, overlaps it as a time interval;
\* cancelled and completed bookings and other dates never count.
C16_RefusedIffOverlapsActive ==
    LET start_min == ParseTime(returned.start_time)
        end_min == ParseTime(returned.end_time)
    IN  (/\ returned.fn = "validate_booking_slot"
         /\ start_min < end_min
         /\ end_min - start_min <= BOOKING_MAX_HOURS * 60)
            => (returned.reason # "ok"
                  <=> \E i \in 1..Len(bookings) :
                         /\ bookings[i].date = returned.date
                         /\ IsActive(bookings[i])
                         /\ bookings[i].id # returned.exclude_booking_id
                         /\ ~(\/ end_min <= ParseTime(bookings[i].start_time)
                              \/ start_min >= ParseTime(bookings[i].end_time)))

\* C17: every persisted booking has its start before its end as times of
\* day, a stored duration equal to end minus start, and a duration of at
\* most BOOKING_MAX_HOURS, whatever time texts the requester typed.
C17_PersistedStartBeforeEnd ==
    \A b \in 1..Len(bookings) :
        LET start_min == ParseTime(bookings[b].start_time)
            end_min == ParseTime(bookings[b].end_time)
        IN  /\ start_min < end_min
            /\ bookings[b].duration = end_min - start_min
            /\ bookings[b].duration <= BOOKING_MAX_HOURS * 60

\* C18: the start and the end of every persisted booking lie on 30-minute
\* boundaries, whatever time texts the requester typed.
C18_PersistedOnHalfHours ==
    \A b \in 1..Len(bookings) :
        /\ ParseTime(bookings[b].start_time) % 30 = 0
        /\ ParseTime(bookings[b].end_time) % 30 = 0

\* C19: get_available_start_slots returns, in ascending order, exactly the
\* 30-minute boundaries of the day that are strictly after now when the date
\* is today and that are not the start of a busy booking of the date.
C19_StartSlotsExact ==
    returned.fn = "get_available_start_slots"
        => LET slots == returned.slots
               busy == get_bookings_for_schedule(bookings, returned.date)
               Expected ==
                   {m \in {30 * k : k \in 0..47} :
                       /\ (returned.date = get_today_date(now) => m * 60 > now % DAY)
                       /\ \A i \in 1..Len(busy) : ParseTime(busy[i].start_time) # m}
           IN  /\ \A k \in 1..Len(slots) : slots[k] = FormatTime(ParseTime(slots[k]))
               /\ {ParseTime(slots[k]) : k \in 1..Len(slots)} = Expected
               /\ \A k \in 1..(Len(slots) - 1) :
                     ParseTime(slots[k]) < ParseTime(slots[k + 1])

\* C20: for a start on a 30-minute boundary, every end that
\* get_available_end_slots returns is, as a time of day, after the start and
\* at most BOOKING_MAX_HOURS after it.
C20_EndSlotsAfterStart ==
    returned.fn = "get_available_end_slots"
        => LET start_min == ParseTime(returned.start_time)
           IN  \A k \in 1..Len(returned.slots) :
                  /\ start_min < ParseTime(returned.slots[k])
                  /\ ParseTime(returned.slots[k]) <= start_min + BOOKING_MAX_HOURS * 60

\* C21: get_available_end_slots returns the candidates start + 30 min,
\* start + 60 min, .. up to BOOKING_MAX_HOURS that come before the first one
\* whose interval [start, candidate) overlaps a busy booking of the date, in
\* that order, and nothing else.
C21_EndSlotsContiguousPrefix ==
    returned.fn = "get_available_end_slots"
        => LET start_min == ParseTime(returned.start_time)
               busy == get_bookings_for_schedule(bookings, returned.date)
               Conflicts(k) ==
                   \E i \in 1..Len(busy) :
                       ~(\/ start_min + 30 * k <= ParseTime(busy[i].start_time)
                         \/ start_min >= ParseTime(busy[i].end_time))
               Free == {k \in 1..(2 * BOOKING_MAX_HOURS) : \A j \in 1..k : ~Conflicts(j)}
           IN  /\ Len(returned.slots) = Cardinality(Free)
               /\ \A k \in 1..Len(returned.slots) :
                     returned.slots[k] = FormatTime((start_min + 30 * k) % 1440)

\* C22: the confirm action goes on to write only when the booking it read
\* is pending; it then sets status confirmed and confirmed_at and writes one
\* confirmed event.  A booking read with another status, or an unknown id,
\* changes nothing: no status confirmed, no confirmed_at and no confirmed
\* event is ever written except by a confirm action that read pending.
C22_ConfirmOnlyFromPending ==
    [][/\ \A h \in 1..MaxHandlers :
             /\ handlers[h].pc \in {"confirm", "confirm_event"}
                   => handlers[h].rows[1].status = "pending"
             /\ (handlers[h].pc = "idle" /\ handlers'[h].pc = "confirm")
                   => /\ bookings[handlers'[h].rows[1].id].status = "pending"
                      /\ UNCHANGED <<bookings, booking_events>>
             /\ (handlers[h].pc = "confirm" /\ handlers'[h].pc = "confirm_event")
                   => /\ bookings'[handlers[h].rows[1].id].status = "confirmed"
                      /\ bookings'[handlers[h].rows[1].id].confirmed_at = handlers[h].ts
                      /\ handlers[h].ts # NULL
             /\ (handlers[h].pc = "confirm_event" /\ handlers'[h].pc = "idle")
                   => CountEvents(booking_events', handlers[h].rows[1].id,
                                  {"confirmed"}) = 1
       /\ \A b \in 1..Len(bookings) :
             (\/ bookings'[b].status = "confirmed" /\ bookings[b].status # "confirmed"
              \/ bookings'[b].confirmed_at # bookings[b].confirmed_at
              \/ CountEvents(booking_events', b, {"confirmed"})
                     # CountEvents(booking_events, b, {"confirmed"}))
                 => \E h \in 1..MaxHandlers :
                       /\ handlers[h].pc \in {"confirm", "confirm_event"}
                       /\ handlers[h].rows[1].id = b]_vars

\* C22, its case: a confirm action has run to its end on a pending booking.
C22_ConfirmApplied ==
    \E b \in 1..Len(bookings) :
        /\ bookings[b].status = "confirmed"
        /\ bookings[b].confirmed_at # NULL
        /\ CountEvents(booking_events, b, {"confirmed"}) = 1
        /\ AllIdle

\* C23: a user or admin cancel acts only on a booking it read as pending or
\* confirmed; it then sets the status of its role, cancelled_by, the reason
\* and cancelled_at, writes one cancellation event, sends one message to the
\* requester and one to the group and sets group_notified.  A booking that is
\* not active or does not exist is left alone: no user or admin cancellation
\* is written except by a cancel that read the booking active.
C23_ExplicitCancelFromActive ==
    [][/\ \A h \in 1..MaxHandlers :
             LET t == handlers[h]
                 id == t.rows[1].id
                 next == handlers'[h].pc
             IN  /\ t.pc \in CancelPcs
                       => t.rows[1].status \in ActiveStatuses /\ t.role \in {"user", "admin"}
                 /\ (t.pc = "idle" /\ next = "cancel")
                       => /\ \A k \in 1..Len(handlers'[h].rows) :
                                IsActive(bookings[handlers'[h].rows[k].id])
                          /\ UNCHANGED <<bookings, booking_events, sent>>
                 /\ (t.pc = "cancel" /\ next = "cancel_event")
                       => /\ bookings'[id].status
                                = (IF t.role = "user" THEN "cancelled_by_user"
                                   ELSE "cancelled_by_admin")
                          /\ bookings'[id].cancelled_by = t.role
                          /\ bookings'[id].cancel_reason # ""
                          /\ bookings'[id].cancelled_at = t.ts /\ t.ts # NULL
                 /\ (t.pc = "cancel_event" /\ next = "notify_user")
                       => CountEvents(booking_events', id,
                                      {"cancelled_user", "cancelled_admin"})
                             = CountEvents(booking_events, id,
                                           {"cancelled_user", "cancelled_admin"}) + 1
                 /\ (t.pc = "notify_user" /\ next = "notify_group")
                       => sent'["cancelled_user"][id] = sent["cancelled_user"][id] + 1
                 /\ (t.pc = "notify_group" /\ next = "mark")
                       => sent'["cancelled_group"][id] = sent["cancelled_group"][id] + 1
                 /\ (t.pc = "mark" /\ next # "mark")
                       => bookings'[id].group_notified = 1
       /\ \A b \in 1..Len(bookings) :
             (\/ /\ bookings'[b].status \in {"cancelled_by_user", "cancelled_by_admin"}
                 /\ bookings'[b].status # bookings[b].status
              \/ CountEvents(booking_events', b, {"cancelled_user", "cancelled_admin"})
                     # CountEvents(booking_events, b, {"cancelled_user", "cancelled_admin"}))
                 => \E h \in 1..MaxHandlers :
                       /\ handlers[h].pc \in CancelPcs
                       /\ handlers[h].rows[1].id = b]_vars

\* C24: Scenario D.  The completion pass selects exactly the confirmed rows
\* whose end instant is at or before now; each step it takes on a row leaves
\* the row completed with completed_at set and then exactly one 'completed'
\* event; no other row and no confirmed row whose end is still ahead is
\* written by the pass; and the pass sends nothing.
C24_CompletionPass ==
    [][LET j == "complete_bookings"
           t == jobs[j]
           Ended(r) == parse_booking_dt(r.date, r.end_time) <= now
       IN  jobs'[j] # t =>
             /\ sent' = sent
             /\ t.pc = "idle" =>
                  /\ bookings' = bookings /\ booking_events' = booking_events
                  /\ \A b \in 1..Len(bookings) :
                        (bookings[b].status = "confirmed" /\ Ended(bookings[b]))
                            => \E k \in 1..Len(jobs'[j].rows) : jobs'[j].rows[k].id = b
             /\ t.pc # "idle" =>
                  /\ t.rows[1].status = "confirmed" /\ Ended(t.rows[1])
                  /\ \A b \in 1..Len(bookings) :
                        b # t.rows[1].id =>
                            /\ bookings'[b] = bookings[b]
                            /\ booking_events'[b] = booking_events[b]
             /\ t.pc = "complete" =>
                  /\ bookings'[t.rows[1].id].status = "completed"
                  /\ bookings'[t.rows[1].id].completed_at = now
                  /\ jobs'[j].pc = "complete_event"
             /\ t.pc = "complete_event" =>
                  /\ bookings' = bookings
                  /\ CountEvents(booking_events', t.rows[1].id, {"completed"}) = 1
                  /\ \A k \in 2..Len(t.rows) :
                        (bookings[t.rows[k].id].status = "confirmed" /\ Ended(t.rows[k]))
                            => \E m \in 1..Len(jobs'[j].rows) : jobs'[j].rows[m].id = t.rows[k].id]_vars

\* C24 witness: a booking confirmed at an instant before its end stayed
\* confirmed until the pass at its end instant completed it (completed_at
\* set, one 'completed' event), and no cancellation message was ever sent.
C24_CompletedAtEnd ==
    /\ jobs["complete_bookings"].pc = "idle"
    /\ \E b \in 1..Len(bookings) :
          /\ bookings[b].status = "completed"
          /\ bookings[b].confirmed_at # NULL
          /\ bookings[b].confirmed_at < parse_booking_dt(bookings[b].date, bookings[b].end_time)
          /\ bookings[b].completed_at = parse_booking_dt(bookings[b].date, bookings[b].end_time)
          /\ CountEvents(booking_events, b, {"completed"}) = 1
    /\ \A b \in 1..MaxBookings : sent["cancelled_user"][b] = 0 /\ sent["cancelled_group"][b] = 0

\* C25: the reminder window.  A reminder is sent for a booking, and its
\* remind_sent flag set, only at an instant t with
\* start - BOOKING_CONFIRM_BEFORE_MINUTES minutes <= t <= start, in seconds.
C25_ReminderWithinWindow ==
    [][\A b \in 1..Len(bookings) :
          LET start == parse_booking_dt(bookings[b].date, bookings[b].start_time)
          IN  (\/ sent'["reminder"][b] # sent["reminder"][b]
               \/ bookings'[b].remind_sent # bookings[b].remind_sent)
                  => /\ start - BOOKING_CONFIRM_BEFORE_MINUTES * 60 <= now
                     /\ now <= start]_vars

C27_PassFailureContained ==
    [][\A j \in JobNames :
          /\ jobs'[j].pc \in {"idle", "send", "mark", "event"} \cup CancelPcs
                                \cup {"complete", "complete_event"}
          /\ (jobs'[j] # jobs[j] /\ faults' < faults) =>
                /\ \A k \in JobNames \ {j} : jobs'[k] = jobs[k]
                /\ handlers' = handlers
                /\ IF jobs[j].pc \in {"send", "notify_user", "notify_group"}
                   THEN /\ bookings' = bookings
                        /\ jobs'[j].pc # jobs[j].pc \/ jobs'[j].rows # jobs[j].rows
                   ELSE jobs'[j] = IdleJob]_vars

\* C27 witness: a store write of the reminder pass failed (the reminder went
\* out and no 'remind_sent' event was written), and at later ticks the other
\* passes ran: the booking was confirmed and then completed by the
\* completion pass.
C27_LaterPassesRan ==
    \E b \in 1..Len(bookings) :
        /\ faults = 0
        /\ sent["reminder"][b] = 1
        /\ CountEvents(booking_events, b, {"remind_sent"}) = 0
        /\ bookings[b].status = "completed"
        /\ CountEvents(booking_events, b, {"completed"}) = 1
        /\ \A j \in JobNames : jobs[j].pc = "idle"

\* C28: for every booking the events of its audit log, in the order they were
\* written, start with 'created' and are strictly increasing in timestamp.
C28_EventsStrictlyIncreasing ==
    \A b \in 1..Len(bookings) :
        /\ booking_events[b] # <<>> => booking_events[b][1].event_type = "created"
        /\ \A k \in 1..(Len(booking_events[b]) - 1) :
              booking_events[b][k].event_at < booking_events[b][k + 1].event_at

\* C29: round trip of create_booking.  Right after create_booking has
\* returned an id, get_booking(id) gives the date, start, end and duration
\* that were passed in, status pending, remind_sent = 0 and group_notified = 0;
\* the log of that id holds exactly one event, 'created', stamped created_at;
\* and no row written before carries that id.
C29_CreateRoundTrip ==
    [][\A h \in 1..MaxHandlers :
          (handlers[h].pc = "create" /\ bookings' # bookings)
              => LET t == handlers[h]
                     id == Len(bookings')
                     booking == get_booking(bookings', id)
                 IN  /\ booking.id = id
                     /\ booking.tg_id = t.user
                     /\ booking.date = t.date
                     /\ booking.start_time = t.start_time
                     /\ booking.end_time = t.end_time
                     /\ booking.duration = calculate_duration_hours(t.start_time, t.end_time)
                     /\ booking.status = "pending"
                     /\ booking.remind_sent = 0
                     /\ booking.group_notified = 0
                     /\ booking.created_at = t.ts
                     /\ booking_events'[id] = <<Event("created", "user", t.user, booking.created_at)>>
                     /\ \A k \in 1..Len(bookings) : bookings[k].id # id
                     /\ \A k \in 1..Len(bookings) : bookings'[k] = bookings[k]]_vars

\* C29 witness: two bookings have been created one after the other, under
\* different ids, each pending with its flags clear and a log of exactly its
\* 'created' event stamped created_at, one of them with a time typed without
\* a leading zero.
C29_TwoCreated ==
    /\ Len(bookings) = 2
    /\ bookings[1].id # bookings[2].id
    /\ \E b \in 1..2 : bookings[b].start_time = t_900
    /\ \A b \in 1..2 :
          /\ get_booking(bookings, b).status = "pending"
          /\ get_booking(bookings, b).remind_sent = 0
          /\ booking_events[b] =
                 <<Event("created", "user", bookings[b].tg_id, bookings[b].created_at)>>

\* C30: in every store snapshot no booking is selected by two of
\* get_bookings_needing_reminder, get_bookings_needing_cancellation and
\* get_bookings_to_complete, and the three passes of one tick, run one after
\* the other in any order, leave the same store.
C30_PassesDisjointAndCommute ==
    LET selected(j) ==
            LET rows == CASE j = "check_reminders" -> get_bookings_needing_reminder(bookings)
                          [] j = "check_expired" -> get_bookings_needing_cancellation(bookings)
                          [] OTHER -> get_bookings_to_complete(bookings)
            IN  {rows[k].id : k \in 1..Len(rows)}
        start == Store(bookings, booking_events, sent)
        after(j1, j2, j3) == Pass(j3, Pass(j2, Pass(j1, start)))
    IN  /\ \A j1, j2 \in JobNames : j1 # j2 => selected(j1) \cap selected(j2) = {}
        /\ \A j1, j2, j3 \in JobNames :
              {j1, j2, j3} = JobNames
                  => after(j1, j2, j3)
                       = after("check_reminders", "check_expired", "complete_bookings")

\* C30 witness: between two ticks, at 10:00, one booking is confirmed and
\* over and another is pending, reminded and past its grace: the completion
\* pass and the timeout pass both have a row to act on.
C30_TwoPassesHaveWork ==
    /\ Quiescent
    /\ \E b1, b2 \in 1..Len(bookings) :
          /\ bookings[b1].status = "confirmed" /\ IsFinished(bookings[b1])
          /\ bookings[b2].status = "pending" /\ bookings[b2].remind_sent = 1
          /\ IsExpired(bookings[b2])

C32_PollingBounds ==
    [][\A b \in 1..Len(bookings) :
          LET deadline == parse_booking_dt(bookings[b].date, bookings[b].start_time)
                              + BOOKING_CONFIRM_GRACE_MINUTES * 60
              end == parse_booking_dt(bookings[b].date, bookings[b].end_time)
          IN  /\ (bookings[b].status # "cancelled" /\ bookings'[b].status = "cancelled")
                    => deadline <= now
              /\ (bookings[b].status # "completed" /\ bookings'[b].status = "completed")
                    => end <= now
              /\ (bookings'[b].status = "pending" /\ bookings'[b].remind_sent = 1)
                    => now' <= deadline + 60
              /\ bookings'[b].status = "confirmed" => now' <= end + 60]_vars

\* C32 witness: the booking, confirmed before its end, was completed at the
\* first tick after its end, less than a tick interval late.
C32_CompletedWithinATick ==
    \E b \in 1..Len(bookings) :
        /\ bookings[b].status = "completed"
        /\ parse_booking_dt(bookings[b].date, bookings[b].end_time) < bookings[b].completed_at
        /\ bookings[b].completed_at < parse_booking_dt(bookings[b].date, bookings[b].end_time) + 60
        /\ bookings[b].confirmed_at # NULL
        /\ bookings[b].confirmed_at < parse_booking_dt(bookings[b].date, bookings[b].end_time)

\* C33: the reminder pass is not a status change.  A step of the pass leaves
\* every row as it was except remind_sent of the row in hand, which goes from
\* 0 to 1 and only after the reminder went out, and leaves every log as it was
\* except the log of the row in hand, which grows by one 'remind_sent' event;
\* rows the pass does not remind are not written at all.
C33_ReminderPassFrame ==
    [][LET j == "check_reminders"
           t == jobs[j]
       IN  jobs'[j] # t =>
             /\ t.pc = "idle" => bookings' = bookings /\ booking_events' = booking_events
             /\ t.pc # "idle" =>
                  LET id == t.rows[1].id
                  IN  /\ NeedsReminder(t.rows[1])
                      /\ \A b \in 1..Len(bookings) :
                            /\ bookings'[b] = [bookings[b] EXCEPT !.remind_sent = bookings'[b].remind_sent]
                            /\ b # id => /\ bookings'[b] = bookings[b]
                                         /\ booking_events'[b] = booking_events[b]
                      /\ bookings'[id].remind_sent # bookings[id].remind_sent =>
                            /\ bookings[id].remind_sent = 0
                            /\ bookings'[id].remind_sent = 1
                            /\ sent["reminder"][id] >= 1
                      /\ \/ booking_events'[id] = booking_events[id]
                         \/ /\ booking_events'[id] =
                                  Append(booking_events[id],
                                         Event("remind_sent", "system", NULL, t.ts))
                            /\ bookings[id].remind_sent = 1]_vars

\* C33 witness: the reminder pass has reminded a pending booking: the message
\* went out, remind_sent is 1, the log has its 'remind_sent' event, and the
\* booking is still pending with no other field set.
C33_RemindedStillPending ==
    \E b \in 1..Len(bookings) :
        /\ jobs["check_reminders"].pc = "idle"
        /\ sent["reminder"][b] = 1
        /\ bookings[b] = [NewBooking(b, bookings[b].tg_id, bookings[b].date,
                                     bookings[b].start_time, bookings[b].end_time,
                                     bookings[b].duration, bookings[b].created_at)
                             EXCEPT !.remind_sent = 1]
        /\ CountEvents(booking_events, b, {"remind_sent"}) = 1
        /\ Len(booking_events[b]) = 2

\* C34: the menus never offer a choice the final gate rejects.  On every
\* store and at every clock reading, for every date, every start offered by
\* get_available_start_slots and every end offered for it by
\* get_available_end_slots, validate_booking_slot returns ok.
C34_MenuChoicesPassValidation ==
    \A date \in Dates :
        LET busy_bookings == get_bookings_for_schedule(bookings, date)
            starts == get_available_start_slots(date, busy_bookings, now)
        IN  \A i \in 1..Len(starts) :
                LET ends == get_available_end_slots(starts[i], busy_bookings)
                IN  \A k \in 1..Len(ends) :
                        validate_booking_slot(bookings, date, starts[i], ends[k], 0) = "ok"

\* C35: no booking is committed in the past.  The start instant of every
\* persisted booking is strictly later than its created_at.
C35_StartAfterCreation ==
    \A b \in 1..Len(bookings) :
        bookings[b].created_at < parse_booking_dt(bookings[b].date, bookings[b].start_time)

\* C36: per-booking isolation inside a pass.  When a call made for one
\* booking fails, the bookings further down the result of the same pass
\* execution that qualify for the action are still in the pass's hands: the
\* pass goes on to them.
C36_FailureKeepsRestOfBatch ==
    [][\A j \in JobNames :
          (jobs'[j] # jobs[j] /\ jobs[j].pc # "idle" /\ faults' < faults)
              => \A k \in 2..Len(jobs[j].rows) :
                    Acts(j, jobs[j].rows[k])
                        => \E m \in 1..Len(jobs'[j].rows) :
                              jobs'[j].rows[m].id = jobs[j].rows[k].id]_vars

\* C37: a slot is freed by termination.  For every booking whose status is
\* cancelled (any kind) or completed: validate_booking_slot answers as it
\* would without the row, and not slot_taken for the row's own interval when
\* asked about that row alone; and the store accepts a new booking of the
\* row's date and interval from a requester, the row's own requester
\* included, exactly when it would accept it without the row, so always when
\* the requester holds no other active booking of that date.
C37_TerminationFreesSlot ==
    \A i \in 1..Len(bookings) :
        bookings[i].status \in TerminalStatuses
            => LET r == bookings[i]
                   others == SelectSeq(bookings, LAMBDA x : x.id # r.id)
                   Accepts(rows, u) ==
                       idx_one_booking_per_day(
                           create_booking(rows, u, r.date, r.start_time, r.end_time,
                                          r.duration, now))
               IN  /\ \A s \in StartTexts \cup {r.start_time}, e \in EndTexts \cup {r.end_time} :
                         validate_booking_slot(bookings, r.date, s, e, 0)
                             = validate_booking_slot(others, r.date, s, e, 0)
                   /\ validate_booking_slot(<<r>>, r.date, r.start_time, r.end_time, 0)
                         # "slot_taken"
                   /\ \A u \in Users :
                         /\ Accepts(bookings, u) <=> Accepts(others, u)
                         /\ (\A k \in 1..Len(others) :
                                ~(/\ others[k].tg_id = u /\ others[k].date = r.date
                                  /\ others[k].status \in ActiveStatuses))
                                => Accepts(bookings, u)

\* C37, its case: a booking is cancelled or completed and the store holds a
\* later, active booking of the same requester for the same date and the
\* same interval.
C37_SlotTakenAgain ==
    \E i, j \in 1..Len(bookings) :
        /\ i < j
        /\ bookings[i].status \in TerminalStatuses
        /\ bookings[j].status \in ActiveStatuses
        /\ bookings[j].tg_id = bookings[i].tg_id
        /\ bookings[j].date = bookings[i].date
        /\ bookings[j].start_time = bookings[i].start_time
        /\ bookings[j].end_time = bookings[i].end_time

\* C38: status and timestamp fields are consistent in every reachable state.
\* pending: confirmed_at, cancelled_at, completed_at and cancelled_by unset;
\* confirmed: confirmed_at set, cancelled_at and completed_at unset;
\* completed: confirmed_at and completed_at set, cancelled_at and
\* cancelled_by unset; a cancelled status: cancelled_at, cancelled_by and
\* cancel_reason set, completed_at unset.
C38_StatusMatchesTimestamps ==
    \A i \in 1..Len(bookings) :
        LET r == bookings[i]
        IN  /\ r.status = "pending"
                => /\ r.confirmed_at = NULL /\ r.cancelled_at = NULL
                   /\ r.completed_at = NULL /\ r.cancelled_by = ""
            /\ r.status = "confirmed"
                => /\ r.confirmed_at # NULL
                   /\ r.cancelled_at = NULL /\ r.completed_at = NULL
            /\ r.status = "completed"
                => /\ r.confirmed_at # NULL /\ r.completed_at # NULL
                   /\ r.cancelled_at = NULL /\ r.cancelled_by = ""
            /\ r.status \in {"cancelled", "cancelled_by_user", "cancelled_by_admin"}
                => /\ r.cancelled_at # NULL /\ r.cancelled_by # ""
                   /\ r.cancel_reason # "" /\ r.completed_at = NULL

\* C39: a create rejected by the store is clean, an accepted one is whole.
\* In every state, a create_booking for a requester who holds an active
\* booking of the date is one the index refuses; and every step of the store
\* either leaves the events as they were and adds no row, or appends exactly
\* one pending row, for a requester who held no active booking of its date,
\* together with that row's 'created' event, every earlier row and every
\* other log being as before.
C39_CreateAllOrNothing ==
    [][/\ \A u \in Users, d \in Dates, s \in StartTexts, e \in EndTexts :
             (\E k \in 1..Len(bookings) :
                 /\ bookings[k].tg_id = u /\ bookings[k].date = d
                 /\ bookings[k].status \in ActiveStatuses)
                 => ~idx_one_booking_per_day(create_booking(bookings, u, d, s, e, 0, now))
       /\ (Len(bookings') # Len(bookings)) <=> (booking_events' # booking_events)
       /\ Len(bookings') # Len(bookings)
             => LET n == Len(bookings')
                    new == bookings'[n]
                IN  /\ n = Len(bookings) + 1
                    /\ SubSeq(bookings', 1, n - 1) = bookings
                    /\ new.status = "pending" /\ new.id = n
                    /\ \A k \in 1..Len(bookings) :
                          ~(/\ bookings[k].tg_id = new.tg_id
                            /\ bookings[k].date = new.date
                            /\ bookings[k].status \in ActiveStatuses)
                    /\ booking_events[n] = <<>>
                    /\ booking_events' =
                           [booking_events EXCEPT
                               ![n] = <<Event("created", "user", new.tg_id,
                                              new.created_at)>>]]_vars

\* C39, its case: a booking was created and stands with its 'created' event,
\* there is room for one more row, and its requester's next create for the
\* same date is one the store rejects.
C39_CreatedAndNextRefused ==
    /\ Len(bookings) = 1 /\ Len(bookings) < MaxBookings
    /\ bookings[1].status = "pending"
    /\ Len(booking_events[1]) = 1 /\ booking_events[1][1].event_type = "created"
    /\ \A s \in StartTexts, e \in EndTexts :
          ~idx_one_booking_per_day(
              create_booking(bookings, bookings[1].tg_id, bookings[1].date, s, e, 0, now))

\* ------------------------------------- the booking-menu request, any sender
\* show_booking_menu: the group chat's entry point.  The reply is the inline
\* date menu, or the text sent to a sender who is not verified or who has an
\* active booking of today or tomorrow; nothing is written.
show_booking_menu(h, u) ==
    /\ CanStart(h)
    /\ LET existing == get_user_active_bookings(
                           bookings, u, <<get_today_date(now), get_tomorrow_date(now)>>)
       IN  returned' =
               [fn |-> "show_booking_menu", user |-> u,
                reply |-> IF ~IsVerified(u) THEN "not_verified"
                          ELSE IF existing # <<>> THEN "existing"
                          ELSE "dates"]
    /\ UNCHANGED <<now, bookings, booking_events, sent, conversations, handlers, jobs,
                   end_buttons, faults, dialogs>>

\* Every sender may ask for the menu in private once.
InitMenu ==
    /\ now = ClockInstants[1]
    /\ bookings = <<>>
    /\ booking_events = [b \in BookingIds |-> <<>>]
    /\ sent = [kind \in {"reminder", "cancelled_user", "cancelled_group"} |->
                  [b \in BookingIds |-> 0]]
    /\ conversations = [u \in Senders |-> NoConversation]
    /\ handlers = [h \in 1..MaxHandlers |-> IdleHandler]
    /\ jobs = [j \in JobNames |-> IdleJob]
    /\ end_buttons = {}
    /\ faults = 0
    /\ dialogs = [u \in Senders |-> MaxDialogs]
    /\ returned = NoResult

\* The menu requests of every sender, while bookings of today and tomorrow
\* are created and cancelled in the store.
NextMenu ==
    \/ \E u \in Senders : start_booking_flow(u)
    \/ \E h \in 1..MaxHandlers, u \in Senders : show_booking_menu(h, u)
    \/ \E tg_id \in Users, date \in Dates : call_create_booking(tg_id, date, t_0900, t_1000)
    \/ \E id \in BookingIds, cancelled_by \in {"user", "admin", "system"} :
          call_cancel_booking(id, cancelled_by)

SpecMenu == InitMenu /\ [][NextMenu]_vars

\* C40: the booking-menu request offers the date menu iff the requester is
\* verified and has no active booking dated today or tomorrow, and changes
\* nothing in the store.  For start_booking_flow the offer is the
\* conversation going to STEP_DATE, for show_booking_menu it is the reply.
C40_MenuIffVerifiedAndFree ==
    [][LET today == get_today_date(now)
           tomorrow == get_tomorrow_date(now)
           Free(u) == \A k \in 1..Len(bookings) :
                         ~(/\ bookings[k].tg_id = u
                           /\ bookings[k].date \in {today, tomorrow}
                           /\ bookings[k].status \in ActiveStatuses)
           Verified(u) == u \in Users
       IN  /\ \A u \in Senders :
                 dialogs'[u] < dialogs[u]
                     => /\ (conversations'[u].state = "STEP_DATE")
                               <=> (Verified(u) /\ Free(u))
                        /\ conversations'[u].state \in {"STEP_DATE", "END"}
                        /\ bookings' = bookings /\ booking_events' = booking_events
           /\ (returned' # returned /\ returned'.fn = "show_booking_menu")
                 => /\ (returned'.reply = "dates")
                           <=> (Verified(returned'.user) /\ Free(returned'.user))
                    /\ bookings' = bookings /\ booking_events' = booking_events]_vars

\* C40, its case: a requester with an active booking of today has asked for
\* the menu in the group and was answered with the list of bookings.
C40_RefusedWhileHoldingToday ==
    /\ returned.fn = "show_booking_menu"
    /\ returned.reply = "existing"
    /\ \E k \in 1..Len(bookings) :
          /\ bookings[k].tg_id = returned.user
          /\ bookings[k].date = get_today_date(now)
          /\ bookings[k].status \in ActiveStatuses

====
